---- MODULE Spec2Model ----
(***************************************************************************)
(* abp-gen: the writer (internal/writer), the merge engine and its three   *)
(* strategies (internal/merger), and the generation run of cmd/abp-gen.    *)
(*                                                                         *)
(* File contents are sequences of lines.  A C# line is a record            *)
(* [k, n, t, v] of strings: k is the kind of the line, n a name, t a type  *)
(* and v a variant.  Every regular expression and every strings.Contains   *)
(* test of the source is an operator that tells which line kinds it        *)
(* matches.  Identifiers are chosen so that none is a substring of another.*)
(***************************************************************************)
EXTENDS Integers, Sequences, FiniteSets, TLC

\* ------------------------------------------------------------------ lines

L(k, n, t, v) == [k |-> k, n |-> n, t |-> t, v |-> v]

Blank == L("text", "", "", "")
\* a line of text without braces: a comment, a namespace line, a statement
Text(n) == L("text", n, "", "")
OpenBrace == L("open", "", "", "")
CloseBrace == L("close", "", "", "")
\* `using N;` at column 0 (t = "top"), indented (t = "ind"), or a using
\* statement inside a method body, `using (var x = ...)` (t = "stmt")
Using(n, t) == L("using", n, t, "")
\* `public class N` (t = "pub") or `public static class N` (t = "static")
Class(n, t) == L("class", n, t, "")
\* `public T N { get; set; }` (v = "gs"), `{ get; private set; }` (v = "gps")
\* or `public virtual T N { get; set; }` (v = "virt")
Prop(n, t, v) == L("prop", n, t, v)
\* `public T N(P)`, the header line of a method
MHead(n, t, p) == L("mhead", n, t, p)
\* the line a collaborator patch is anchored on (a constructor header,
\* `public static string[] GetAll()`, ...)
Anchor(n) == L("anchor", n, "", "")
\* `context.AddPermission(N);`
Define(n) == L("define", n, "", "")

\* strings.Count(line, "{") and strings.Count(line, "}")
Opens(l) == IF l.k \in {"open", "prop"} THEN 1 ELSE 0
Closes(l) == IF l.k \in {"close", "prop"} THEN 1 ELSE 0

\* ------------------------------------------------------------- sequences

RECURSIVE SumSeq(_)
SumSeq(s) == IF s = <<>> THEN 0 ELSE Head(s) + SumSeq(Tail(s))

RECURSIVE Concat(_)
Concat(ss) == IF ss = <<>> THEN <<>> ELSE Head(ss) \o Concat(Tail(ss))

Range(s) == {s[i] : i \in 1..Len(s)}

\* the positions of s whose element satisfies P, ascending
Positions(s, P(_)) == {i \in 1..Len(s) : P(s[i])}

Min(S) == CHOOSE x \in S : \A y \in S : x <= y
Max(S) == CHOOSE x \in S : \A y \in S : x >= y

\* lines[:i] ++ ins ++ lines[i:], i the 0-based Go index
InsertAt(lines, i, ins) ==
    SubSeq(lines, 1, i) \o ins \o SubSeq(lines, i + 1, Len(lines))

\* strings.Index(content, part): the first position where part occurs
IndexOf(content, part) ==
    LET hits == {i \in 1..(Len(content) - Len(part) + 1) :
                    SubSeq(content, i, i + Len(part) - 1) = part}
    IN IF part = <<>> \/ hits = {} THEN 0 ELSE Min(hits)

\* --------------------------------------------------------- shallow parser

\* classPattern of ParseClass: a `public [static] class N` followed, after
\* white space only, by an opening brace
ClassMatchAt(c, i) ==
    /\ c[i].k = "class"
    /\ \E j \in (i + 1)..Len(c) :
          /\ c[j].k = "open"
          /\ \A m \in (i + 1)..(j - 1) : c[m] = Blank

\* propertyPattern of parseProperties
PropMatch(l) == l.k = "prop" /\ l.v \in {"gs", "gps"}

parseProperties(c) ==
    LET P(l) == PropMatch(l)
        sel == SelectSeq(c, P)
    IN [i \in 1..Len(sel) |->
          [Name |-> sel[i].n, Type |-> sel[i].t, RawContent |-> <<sel[i]>>]]

\* extractMethodBody: from the first opening brace to the brace closing it
extractMethodBody(c) ==
    LET starts == {i \in 1..Len(c) : Opens(c[i]) > 0}
        s == Min(starts)
        depth(j) == SumSeq([m \in 1..(j - s + 1) |->
                              Opens(c[s + m - 1]) - Closes(c[s + m - 1])])
        ends == {j \in s..Len(c) : depth(j) = 0}
    IN IF starts = {} \/ ends = {} THEN <<>> ELSE SubSeq(c, s, Min(ends))

\* createMethodSignature: the first word of every parameter
ParamTypes(p) ==
    CASE p = "" -> ""
      [] p \in {"int a", "int b"} -> "int"
      [] p = "string a" -> "string"
      [] OTHER -> p

createMethodSignature(returnType, name, parameters) ==
    <<returnType, name, ParamTypes(parameters)>>

\* one CSharpMethod of parseMethods.  The Body field is never assigned by
\* the source, so it is the empty string for every method.
ParsedMethod(c, h) ==
    LET methodIndex == IndexOf(c, <<h>>)
        body == extractMethodBody(SubSeq(c, methodIndex, Len(c)))
    IN [Name |-> h.n, ReturnType |-> h.t, Parameters |-> h.v,
        Body |-> <<>>,
        RawContent |-> <<h>> \o body,
        Signature |-> createMethodSignature(h.t, h.n, h.v)]

parseMethods(c) ==
    LET P(l) == l.k = "mhead"
        sel == SelectSeq(c, P)
    IN [i \in 1..Len(sel) |-> ParsedMethod(c, sel[i])]

NoClass == [ok |-> FALSE, Name |-> "", Properties |-> <<>>, Methods |-> <<>>]

ParseClass(c) ==
    LET hits == {i \in 1..Len(c) : ClassMatchAt(c, i)}
    IN IF hits = {} THEN NoClass
       ELSE [ok |-> TRUE, Name |-> c[Min(hits)].n,
             Properties |-> parseProperties(c), Methods |-> parseMethods(c)]

FindProperty(class, name) ==
    LET hits == {i \in 1..Len(class.Properties) : class.Properties[i].Name = name}
    IN IF hits = {} THEN 0 ELSE Min(hits)

FindMethod(class, sig) ==
    LET hits == {i \in 1..Len(class.Methods) : class.Methods[i].Signature = sig}
    IN IF hits = {} THEN 0 ELSE Min(hits)

HasProperty(class, name) == FindProperty(class, name) # 0
HasMethod(class, sig) == FindMethod(class, sig) # 0

\* usingPattern of ExtractUsings: `^using\s+([^;]+);`, column 0 only
ExtractUsings(c) ==
    LET P(l) == l.k = "using" /\ l.t = "top"
        sel == SelectSeq(c, P)
    IN [i \in 1..Len(sel) |-> sel[i].n]

RECURSIVE Dedup(_, _)
Dedup(s, seen) ==
    IF s = <<>> THEN <<>>
    ELSE IF Head(s) \in seen THEN Dedup(Tail(s), seen)
    ELSE <<Head(s)>> \o Dedup(Tail(s), seen \cup {Head(s)})

MergeUsings(existing, new) == Dedup(existing \o new, {})

\* ------------------------------------------------ structural (AST) strategy

Conflict(type, key, existingCode, newCode) ==
    [Type |-> type, Key |-> key, ExistingCode |-> existingCode, NewCode |-> newCode]

\* ASTMerger.detectConflicts: properties first, then methods, in the order
\* of the new class
PropertyConflicts(existing, new) ==
    LET hit(i) == LET e == FindProperty(existing, new.Properties[i].Name)
                  IN e # 0 /\ existing.Properties[e].Type # new.Properties[i].Type
        idx == SelectSeq([i \in 1..Len(new.Properties) |-> i], hit)
    IN [m \in 1..Len(idx) |->
          LET np == new.Properties[idx[m]]
              ep == existing.Properties[FindProperty(existing, np.Name)]
          IN Conflict("DuplicateProperty", np.Name, ep.RawContent, np.RawContent)]

MethodConflicts(existing, new) ==
    LET hit(i) == LET e == FindMethod(existing, new.Methods[i].Signature)
                  IN e # 0 /\ existing.Methods[e].Body # new.Methods[i].Body
        idx == SelectSeq([i \in 1..Len(new.Methods) |-> i], hit)
    IN [m \in 1..Len(idx) |->
          LET nm == new.Methods[idx[m]]
              em == existing.Methods[FindMethod(existing, nm.Signature)]
          IN Conflict("DuplicateMethod", nm.Name, em.RawContent, nm.RawContent)]

detectConflicts(existing, new) ==
    PropertyConflicts(existing, new) \o MethodConflicts(existing, new)

\* strings.Contains(line, "{ get; set; }")
ContainsGetSet(l) == l.k = "prop" /\ l.v \in {"gs", "virt"}
\* strings.Contains(line, "class "+name)
ContainsClass(l, name) == l.k = "class" /\ l.n = name
\* strings.HasPrefix(strings.TrimSpace(line), "using ")
HasUsingPrefix(l) == l.k = "using"

replaceUsings(content, usings) ==
    LET hits == {i \in 1..Len(content) : HasUsingPrefix(content[i])}
        lastUsing == Max(hits)
        usingLines == [i \in 1..Len(usings) |-> Using(usings[i], "top")]
    IN IF hits = {} THEN content
       ELSE usingLines \o SubSeq(content, lastUsing + 1, Len(content))

mergeProperties(content, existing, new) ==
    LET absent(p) == ~HasProperty(existing, p.Name)
        sel == SelectSeq(new.Properties, absent)
        toAdd == Concat([i \in 1..Len(sel) |-> sel[i].RawContent])
        props == {i \in 1..Len(content) : ContainsGetSet(content[i])}
        classes == {i \in 1..Len(content) : ContainsClass(content[i], existing.Name)}
        braces == {j \in 1..Len(content) : classes # {} /\ j >= Min(classes)
                                           /\ Opens(content[j]) > 0}
        insertIndex == IF props # {} THEN Max(props)
                       ELSE IF braces # {} THEN Min(braces)
                       ELSE -1
    IN IF Len(sel) = 0 \/ insertIndex = -1 THEN content
       ELSE InsertAt(content, insertIndex, toAdd)

mergeMethods(content, existing, new, fileType) ==
    LET wanted(m) == /\ ~(m.Name = existing.Name /\ fileType = "Entity")
                     /\ ~HasMethod(existing, m.Signature)
        sel == SelectSeq(new.Methods, wanted)
        toAdd == Concat([i \in 1..Len(sel) |-> <<Blank>> \o sel[i].RawContent])
        classes == {i \in 1..Len(content) : ContainsClass(content[i], existing.Name)}
        first == Min(classes)
        braceCount(i) == SumSeq([m \in 1..(i - first + 1) |->
                            Opens(content[first + m - 1]) - Closes(content[first + m - 1])])
        ends == {i \in 1..Len(content) :
                    /\ classes # {}
                    /\ i >= first
                    /\ braceCount(i) = 0
                    /\ content[i].k = "close"}
    IN IF Len(sel) = 0 \/ ends = {} THEN content
       ELSE InsertAt(content, Min(ends) - 1, toAdd)

mergeClasses(original, existingClass, newClass, newRaw, fileType) ==
    LET mergedUsings == MergeUsings(ExtractUsings(original), ExtractUsings(newRaw))
        r1 == replaceUsings(original, mergedUsings)
        r2 == mergeProperties(r1, existingClass, newClass)
    IN mergeMethods(r2, existingClass, newClass, fileType)

MergeResult(err, merged, conflicts) ==
    [err |-> err, merged |-> merged, conflicts |-> conflicts]

ASTMerge(existing, newContent, fileType) ==
    LET existingClass == ParseClass(existing)
        newClass == ParseClass(newContent)
        conflicts == detectConflicts(existingClass, newClass)
    IN IF ~existingClass.ok THEN MergeResult("failed to parse existing class", <<>>, <<>>)
       ELSE IF ~newClass.ok THEN MergeResult("failed to parse new class", <<>>, <<>>)
       ELSE IF Len(conflicts) > 0 THEN MergeResult("", existing, conflicts)
       ELSE MergeResult("", mergeClasses(existing, existingClass, newClass,
                                         newContent, fileType), <<>>)

\* ------------------------------------------------------- pattern strategy

\* `public\s+static\s+class\s+\w+\s*\{` at line i
StaticClassAt(c, i) == ClassMatchAt(c, i) /\ c[i].t = "static"

\* the end of `[^}]*\}` started at line i: the first line holding a "}"
FirstCloseFrom(c, i) ==
    LET hits == {j \in i..Len(c) : Closes(c[j]) > 0}
    IN IF hits = {} THEN 0 ELSE Min(hits)

\* extractPermissionClasses: all non-overlapping matches, left to right
RECURSIVE PermissionClassesFrom(_, _)
PermissionClassesFrom(c, from) ==
    LET hits == {i \in from..Len(c) :
                    StaticClassAt(c, i) /\ FirstCloseFrom(c, i) # 0}
        i == Min(hits)
        e == FirstCloseFrom(c, i)
    IN IF hits = {} THEN <<>>
       ELSE <<SubSeq(c, i, e)>> \o PermissionClassesFrom(c, e + 1)

extractPermissionClasses(c) == PermissionClassesFrom(c, 1)

\* extractClassName: the name after the first `public static class`
extractClassName(classCode) ==
    LET hits == {i \in 1..Len(classCode) :
                    classCode[i].k = "class" /\ classCode[i].t = "static"}
    IN IF hits = {} THEN "" ELSE classCode[Min(hits)].n

containsClass(c, className) ==
    \E i \in 1..Len(c) : StaticClassAt(c, i) /\ c[i].n = className

extractExistingClass(c, className) ==
    LET hits == {i \in 1..Len(c) : /\ StaticClassAt(c, i)
                                   /\ c[i].n = className
                                   /\ FirstCloseFrom(c, i) # 0}
    IN IF hits = {} THEN <<>> ELSE SubSeq(c, Min(hits), FirstCloseFrom(c, Min(hits)))

\* strings.Join(parts, "\n\n")
RECURSIVE JoinBlank(_)
JoinBlank(parts) ==
    IF parts = <<>> THEN <<>>
    ELSE IF Len(parts) = 1 THEN parts[1]
    ELSE parts[1] \o <<Blank>> \o JoinBlank(Tail(parts))

insertBeforeClosingBrace(c, toInsert) ==
    LET hits == {i \in 1..Len(c) : c[i].k = "close"}
    IN IF hits = {} THEN c \o toInsert
       ELSE SubSeq(c, 1, Max(hits) - 1) \o <<Blank>> \o toInsert
            \o SubSeq(c, Max(hits), Len(c))

mergePermissions(existing, newContent) ==
    LET all == extractPermissionClasses(newContent)
        named(x) == extractClassName(x) # ""
        newClasses == SelectSeq(all, named)
        dup(x) == containsClass(existing, extractClassName(x))
        fresh(x) == ~dup(x)
        dups == SelectSeq(newClasses, dup)
        toAdd == SelectSeq(newClasses, fresh)
        conflicts == [i \in 1..Len(dups) |->
                        Conflict("DuplicateClass", extractClassName(dups[i]),
                                 extractExistingClass(existing, extractClassName(dups[i])),
                                 dups[i])]
    IN IF Len(conflicts) = 0 /\ Len(toAdd) > 0
       THEN MergeResult("", insertBeforeClosingBrace(existing, JoinBlank(toAdd)), <<>>)
       ELSE MergeResult("", existing, conflicts)

\* `public override void Define(...)` followed by an opening brace
DefineMethodAt(c, i) ==
    /\ c[i].k = "mhead" /\ c[i].n = "Define"
    /\ \E j \in (i + 1)..Len(c) :
          /\ c[j].k = "open"
          /\ \A m \in (i + 1)..(j - 1) : c[m] = Blank

\* insertIntoDefineMethod: ReplaceAllString puts the text before the white
\* space that precedes the first "}" after every Define header
RECURSIVE InsertIntoDefineFrom(_, _, _)
InsertIntoDefineFrom(c, from, toInsert) ==
    LET hits == {i \in from..Len(c) : DefineMethodAt(c, i) /\ FirstCloseFrom(c, i) # 0}
        i == Min(hits)
        e == FirstCloseFrom(c, i)
        solid == {j \in i..(e - 1) : c[j] # Blank}
        at == Max(solid)
    IN IF hits = {} THEN SubSeq(c, from, Len(c))
       ELSE SubSeq(c, from, at) \o toInsert \o SubSeq(c, at + 1, e)
            \o InsertIntoDefineFrom(c, e + 1, toInsert)

insertIntoDefineMethod(c, toInsert) == InsertIntoDefineFrom(c, 1, toInsert)

mergePermissionProvider(existing, newContent) ==
    LET isDefine(l) == l.k = "define"
        newDefines == SelectSeq(newContent, isDefine)
        dup(l) == l \in Range(existing)
        fresh(l) == ~dup(l)
        dups == SelectSeq(newDefines, dup)
        toAdd == SelectSeq(newDefines, fresh)
        conflicts == [i \in 1..Len(dups) |->
                        Conflict("DuplicateMethod", dups[i].n, <<dups[i]>>, <<dups[i]>>)]
    IN IF Len(conflicts) = 0 /\ Len(toAdd) > 0
       THEN MergeResult("", insertIntoDefineMethod(existing, toAdd), <<>>)
       ELSE MergeResult("", existing, conflicts)

\* the entity names a schema may hold, and the types `DbSet<E>`
EntityNames == <<"Product", "Order", "Invoice">>
DbSetOf(e) == "DbSet<" \o e \o ">"
DbSetTypes == {DbSetOf(n) : n \in Range(EntityNames) \cup {"Customer"}}
\* the suffixes renameConflictingItem may have put behind a name
Suffixes == {"", "2", "22", "222", "2222"}
\* strings.Contains(text, base) for a name of the text
NameHolds(n, base) == \E s \in Suffixes : n = base \o s
\* strings.Contains(line, "DbSet<")
HoldsDbSet(l) == \E t \in DbSetTypes : NameHolds(l.t, t)
\* dbSetPattern: `public DbSet<T> N { get; set; }`, without `virtual`
DbSetMatch(l) == l.k = "prop" /\ l.t \in DbSetTypes /\ l.v = "gs"
\* strings.Contains(existing, name + " {")
ContainsNameBrace(c, name) == \E i \in 1..Len(c) : c[i].k = "prop" /\ c[i].n = name
\* `builder.Entity<T>(...);`
ConfigLine(n) == L("cfg", n, "", "")

extractExistingDbSet(c, name) ==
    LET hits == {i \in 1..Len(c) : DbSetMatch(c[i]) /\ c[i].n = name}
    IN IF hits = {} THEN <<>> ELSE <<c[Min(hits)]>>

insertDbSets(c, toAdd) ==
    LET sets == {i \in 1..Len(c) : /\ c[i].k = "prop" /\ HoldsDbSet(c[i])
                                   /\ ContainsGetSet(c[i])}
        omc == {i \in 1..Len(c) : c[i] = Anchor("OnModelCreating")}
        insertIndex == IF sets # {} THEN Max(sets)
                       ELSE IF omc # {} THEN Min(omc) - 1
                       ELSE -1
    IN IF insertIndex = -1 THEN c ELSE InsertAt(c, insertIndex, toAdd)

mergeDbContext(existing, newContent) ==
    LET newDbSets == SelectSeq(newContent, DbSetMatch)
        dup(l) == ContainsNameBrace(existing, l.n)
        fresh(l) == ~dup(l)
        dups == SelectSeq(newDbSets, dup)
        isCfg(l) == l.k = "cfg" /\ l \notin Range(existing)
        toAdd == SelectSeq(newDbSets, fresh) \o SelectSeq(newContent, isCfg)
        conflicts == [i \in 1..Len(dups) |->
                        Conflict("DuplicateProperty", dups[i].n,
                                 extractExistingDbSet(existing, dups[i].n), <<dups[i]>>)]
    IN IF Len(conflicts) = 0 /\ Len(toAdd) > 0
       THEN MergeResult("", insertDbSets(existing, toAdd), <<>>)
       ELSE MergeResult("", existing, conflicts)

PatternMerge(existing, newContent, fileType) ==
    CASE fileType = "Permissions" -> mergePermissions(existing, newContent)
      [] fileType = "PermissionProvider" -> mergePermissionProvider(existing, newContent)
      [] fileType \in {"DbContext", "IDbContext"} -> mergeDbContext(existing, newContent)
      [] OTHER -> MergeResult("unsupported file type for pattern merging", <<>>, <<>>)

\* ------------------------------------------------ structured-data strategy

\* JSON values: a string, a map (a function from keys to values), an array
JS(x) == [ty |-> "s", s |-> x]
JM(x) == [ty |-> "m", m |-> x]
JA(x) == [ty |-> "a", a |-> x]

\* the text of a JSON file: its layout (n = "indent" for the output of
\* json.MarshalIndent(v, "", "  "), "compact" for any other layout, "bad"
\* for text that json.Unmarshal rejects) and the key tree it holds
JDoc(layout, tree) == [k |-> "json", n |-> layout, t |-> "", v |-> "", j |-> tree]

\* json.Unmarshal into a map[string]interface{}
JSONParses(c) == Len(c) = 1 /\ c[1].k = "json" /\ c[1].n # "bad"

\* valuesEqual: equality of the two json.Marshal outputs
valuesEqual(v1, v2) == v1 = v2

MergeArrays(existing, new) ==
    LET fresh(x) == \A i \in 1..Len(existing) : ~valuesEqual(existing[i], x)
    IN existing \o SelectSeq(new, fresh)

RECURSIVE mergeObjects(_, _, _)
mergeObjects(existing, new, strategy) ==
    [key \in DOMAIN existing \cup DOMAIN new |->
        IF key \notin DOMAIN existing THEN new[key]
        ELSE IF key \notin DOMAIN new THEN existing[key]
        ELSE CASE strategy = "overwrite" -> new[key]
               [] strategy = "skip" -> existing[key]
               [] OTHER ->
                    IF existing[key].ty = "m" /\ new[key].ty = "m"
                    THEN JM(mergeObjects(existing[key].m, new[key].m, strategy))
                    ELSE IF existing[key].ty = "a" /\ new[key].ty = "a"
                    THEN JA(MergeArrays(existing[key].a, new[key].a))
                    ELSE existing[key]]

\* the orders in which `for key := range new` may visit a set of keys
RECURSIVE Orders(_)
Orders(S) ==
    IF S = {} THEN {<<>>}
    ELSE UNION {{<<x>> \o rest : rest \in Orders(S \ {x})} : x \in S}

\* JSONMerger.detectConflicts: top-level keys only, in map iteration order
JSONConflictKeys(existing, new) ==
    {key \in DOMAIN new : key \in DOMAIN existing
                          /\ ~valuesEqual(existing[key], new[key])}

JSONConflicts(existing, new, order) ==
    [i \in 1..Len(order) |->
        Conflict("DifferentValue", order[i], existing[order[i]], new[order[i]])]

\* JSONMerger.Merge: every result the map iteration order allows
JSONMerge(existing, newContent, strategy) ==
    IF ~JSONParses(existing)
    THEN {MergeResult("failed to parse existing JSON", <<>>, <<>>)}
    ELSE IF ~JSONParses(newContent)
    THEN {MergeResult("failed to parse new JSON", <<>>, <<>>)}
    ELSE LET e == existing[1].j
             n == newContent[1].j
             merged == <<JDoc("indent", mergeObjects(e, n, strategy))>>
         IN IF strategy = "append"
            THEN {MergeResult("", merged, JSONConflicts(e, n, o)) :
                     o \in Orders(JSONConflictKeys(e, n))}
            ELSE {MergeResult("", merged, <<>>)}

\* ------------------------------------------------------------- classifier

\* A path is [dir, name, ext]: the directory segments, the words of the
\* file name in order ("Create", "Product", "Dto") and the extension.
Path(dir, name, ext) == [dir |-> dir, name |-> name, ext |-> ext]

\* strings.HasSuffix(filename, words + "." + ext)
NameEndsWith(p, words) ==
    /\ Len(p.name) >= Len(words)
    /\ SubSeq(p.name, Len(p.name) - Len(words) + 1, Len(p.name)) = words
\* strings.Contains(filename, word)
NameContains(p, word) == \E i \in 1..Len(p.name) : p.name[i] = word
\* strings.HasPrefix(filename, "I")
NameStartsWithI(p) == Len(p.name) > 0 /\ p.name[1] \in {"I", "Invoice"}

ClassifyFile(p) ==
    CASE p.ext = "json" -> "LocalizationJSON"
      [] p.ext # "json" /\ p.ext # "cs" -> "Unknown"
      [] OTHER ->
         IF NameEndsWith(p, <<"Permissions">>) /\ ~NameContains(p, "Provider")
         THEN "Permissions"
         ELSE IF NameEndsWith(p, <<"Permission", "Definition", "Provider">>)
         THEN "PermissionProvider"
         ELSE IF NameEndsWith(p, <<"Db", "Context">>) /\ ~NameStartsWithI(p)
         THEN "DbContext"
         ELSE IF NameStartsWithI(p) /\ NameEndsWith(p, <<"Db", "Context">>)
         THEN "IDbContext"
         ELSE IF NameEndsWith(p, <<"Dto">>) THEN "DTO"
         ELSE IF NameEndsWith(p, <<"App", "Service">>) THEN "Service"
         ELSE IF NameEndsWith(p, <<"Manager">>) THEN "Manager"
         ELSE IF NameEndsWith(p, <<"Controller">>) THEN "Controller"
         ELSE IF NameEndsWith(p, <<"Validator">>) THEN "Validator"
         ELSE IF NameEndsWith(p, <<"Repository">>) THEN "Repository"
         ELSE IF NameEndsWith(p, <<"Constants">>) THEN "Constants"
         ELSE IF NameEndsWith(p, <<"Profile">>) THEN "AutoMapperProfile"
         ELSE IF NameEndsWith(p, <<"Event", "Handler">>) THEN "EventHandler"
         ELSE IF \E i \in 1..Len(p.dir) : p.dir[i] = "Entities" THEN "Entity"
         ELSE "Unknown"

GetMergeStrategy(fileType) ==
    CASE fileType \in {"Permissions", "PermissionProvider", "DbContext", "IDbContext"}
           -> "Pattern"
      [] fileType \in {"Entity", "DTO", "Service", "Manager", "Controller",
                       "Validator", "Repository"} -> "AST"
      [] fileType = "LocalizationJSON" -> "JSON"
      [] OTHER -> "None"

\* Detector.CanMerge
CanMerge(fileType) ==
    fileType \in {"Permissions", "PermissionProvider", "DbContext", "IDbContext",
                  "LocalizationJSON", "Entity", "DTO", "Service", "Manager",
                  "Controller", "Validator"}

\* ------------------------------------------------------ conflict resolver

IsJSON(c) == Len(c) = 1 /\ c[1].k = "json"

\* fmt.Sprintf("%v", value): the text of a string, Go's map[...] / [...]
\* notation for a map or an array
FmtValue(v) == IF v.ty = "s" THEN v.s ELSE "%v"

\* the leaf strings of a tree, in the order of the text (keys sorted)
JsonKeyOrder == <<"Invoice", "Order", "Product", "k">>

RECURSIVE ReplaceFirstLeaf(_, _, _)
\* [t, done]: tree with the first string leaf equal to old replaced by new
ReplaceFirstLeaf(tree, old, new) ==
    LET keys == SelectSeq(JsonKeyOrder, LAMBDA x : x \in DOMAIN tree)
        step(acc, key) ==
            IF acc.done THEN acc
            ELSE LET v == tree[key]
                 IN IF v.ty = "s" /\ v.s = old
                    THEN [t |-> [acc.t EXCEPT ![key] = JS(new)], done |-> TRUE]
                    ELSE IF v.ty = "m"
                    THEN LET sub == ReplaceFirstLeaf(v.m, old, new)
                         IN [t |-> [acc.t EXCEPT ![key] = JM(sub.t)], done |-> sub.done]
                    ELSE acc
        fold[i \in 0..Len(keys)] ==
            IF i = 0 THEN [t |-> tree, done |-> FALSE] ELSE step(fold[i - 1], keys[i])
    IN fold[Len(keys)]

Renamed(n) == n \o "2"

\* renameProperty: on a line holding "{ get; set; }", the first word that
\* does not follow `public` gets the suffix
renamePropertyLine(l) ==
    IF ~ContainsGetSet(l) THEN l
    ELSE IF l.v = "virt" THEN [l EXCEPT !.t = Renamed(l.t)]
    ELSE [l EXCEPT !.n = Renamed(l.n)]

\* renameMethod: on a line holding "(" and an access modifier
renameMethodLine(l) == IF l.k = "mhead" THEN [l EXCEPT !.n = Renamed(l.n)] ELSE l

\* renameClass: on a line holding "class "
renameClassLine(l) == IF l.k = "class" THEN [l EXCEPT !.n = Renamed(l.n)] ELSE l

renameConflictingItem(code, conflictType) ==
    CASE conflictType = "DuplicateProperty" ->
            [i \in 1..Len(code) |-> renamePropertyLine(code[i])]
      [] conflictType = "DuplicateMethod" ->
            [i \in 1..Len(code) |-> renameMethodLine(code[i])]
      [] conflictType = "DuplicateClass" ->
            [i \in 1..Len(code) |-> renameClassLine(code[i])]
      [] OTHER -> code

\* strings.Replace(content, oldCode, newCode, 1)
replaceCode(content, oldCode, newCode) ==
    IF IsJSON(content)
    THEN IF content[1].n = "bad" \/ oldCode.ty # "s" THEN content
         ELSE LET r == ReplaceFirstLeaf(content[1].j, oldCode.s, FmtValue(newCode))
              IN IF r.done
                 THEN <<JDoc(content[1].n, r.t)>>
                 ELSE content
    ELSE IF oldCode = <<>> THEN newCode \o content
    ELSE LET i == IndexOf(content, oldCode)
         IN IF i = 0 THEN content
            ELSE SubSeq(content, 1, i - 1) \o newCode
                 \o SubSeq(content, i + Len(oldCode), Len(content))

\* insertAfter: content[:end] + "\n\n" + newCode + content[end:]
insertAfter(content, existingCode, newCode) ==
    IF IsJSON(content)
    THEN IF content[1].n = "bad" \/ existingCode.ty # "s" THEN content
         ELSE LET r == ReplaceFirstLeaf(content[1].j, existingCode.s, existingCode.s)
              IN IF r.done THEN <<JDoc("bad", content[1].j)>> ELSE content
    ELSE IF existingCode = <<>> THEN <<Blank, Blank>> \o newCode \o content
    ELSE LET i == IndexOf(content, existingCode)
             e == i + Len(existingCode) - 1
         IN IF i = 0 THEN content
            ELSE SubSeq(content, 1, e) \o <<Blank>> \o newCode
                 \o SubSeq(content, e + 1, Len(content))

\* one iteration of the loop of ResolveConflicts
ApplyResolution(result, conflict, resolution) ==
    CASE resolution = "UseNew" ->
            replaceCode(result, conflict.ExistingCode, conflict.NewCode)
      [] resolution = "KeepBoth" ->
            insertAfter(result, conflict.ExistingCode,
                        IF IsJSON(result) THEN conflict.NewCode
                        ELSE renameConflictingItem(conflict.NewCode, conflict.Type))
      [] OTHER -> result

\* ResolveConflicts starts from the existing text, not from the merged one;
\* a conflict without a resolution keeps the existing code
ResolveConflicts(existing, conflicts, resolutions, newContent) ==
    LET fold[i \in 0..Len(conflicts)] ==
            IF i = 0 THEN existing
            ELSE ApplyResolution(fold[i - 1], conflicts[i],
                                 IF i \in DOMAIN resolutions THEN resolutions[i]
                                 ELSE "KeepExisting")
    IN fold[Len(conflicts)]

\* PromptConflictBatch with a decision provider that answers res[i] when
\* conflict i is presented and all[i] to the "apply to all remaining
\* conflicts of this type?" that follows it.  The loop stops at the first
\* yes: the conflicts behind it are not presented.
PromptConflictBatchWith(conflicts, res, all) ==
    LET yes == {i \in 1..(Len(conflicts) - 1) : all[i]}
        stop == IF yes = {} THEN 0 ELSE Min(yes)
        presented == IF stop = 0 THEN 1..Len(conflicts) ELSE 1..stop
        same == IF stop = 0 THEN {}
                ELSE {j \in (stop + 1)..Len(conflicts) :
                         conflicts[j].Type = conflicts[stop].Type}
    IN [presented |-> presented,
        resolutions |-> [j \in presented \cup same |->
                            IF j \in presented THEN res[j] ELSE res[stop]]]

\* PromptConflictBatch with a decision provider that answers `resolution`
\* to every conflict and `applyToAll` to every "apply to all remaining
\* conflicts of this type?"
PromptConflictBatch(conflicts, resolution, applyToAll) ==
    PromptConflictBatchWith(conflicts,
                            [i \in 1..Len(conflicts) |-> resolution],
                            [i \in 1..Len(conflicts) |-> applyToAll]).resolutions

\* ----------------------------------------------------------- merge engine

\* os.Stat(path): the file system is a function from the paths that exist
\* to their contents
Exists(files, path) == path \in DOMAIN files

\* NewEngine: merge-all off, no remembered decision
NewEngine == [MergeAll |-> FALSE, MergeMode |-> ""]

\* what MergeFile returns, the engine it leaves, and the calls it made to
\* the decision provider and to a strategy, in order
MergeOutcome(content, shouldWrite, err, eng, events) ==
    [content |-> content, shouldWrite |-> shouldWrite, err |-> err, eng |-> eng,
     events |-> events]

\* Engine.performMerge: every (merged, shouldWrite, err) the strategy allows.
\* `ans` is the decision provider: it answers ans.resolution to every
\* conflict and ans.resolveAll to "apply to all remaining conflicts".
performMerge(ans, existing, newContent, fileType) ==
    LET strategy == GetMergeStrategy(fileType)
        results ==
            CASE strategy = "Pattern" -> {PatternMerge(existing, newContent, fileType)}
              [] strategy = "AST" -> {ASTMerge(existing, newContent, fileType)}
              [] strategy = "JSON" -> JSONMerge(existing, newContent, "append")
              [] OTHER -> {MergeResult("unsupported merge strategy", <<>>, <<>>)}
        out(r) ==
            IF r.err # "" THEN [content |-> <<>>, shouldWrite |-> FALSE,
                                err |-> "merge failed", events |-> <<"Merge">>]
            ELSE IF Len(r.conflicts) > 0
            THEN [content |-> ResolveConflicts(existing, r.conflicts,
                                  PromptConflictBatch(r.conflicts, ans.resolution,
                                                      ans.resolveAll),
                                  newContent),
                  shouldWrite |-> TRUE, err |-> "",
                  events |-> <<"Merge", "PromptConflictBatch">>]
            ELSE [content |-> r.merged, shouldWrite |-> TRUE, err |-> "",
                  events |-> <<"Merge">>]
    IN {out(r) : r \in results}

\* a decision is kept for all files
RememberedNever(eng) == FALSE

\* `e.MergeAll && e.MergeMode != ""`: a decision is kept for all files
Remembered(eng) == eng.MergeAll /\ eng.MergeMode # ""

\* Engine.MergeFile.  ans.decision answers PromptMergeDecision and
\* ans.applyAll answers PromptMergeAll.
MergeFile(force, ans, eng, files, path, newContent) ==
    LET fileType == ClassifyFile(path)
        remembered == Remembered(eng)
        decision == IF remembered THEN eng.MergeMode ELSE ans.decision
        eng2 == IF ~remembered /\ ~eng.MergeAll /\ ans.applyAll
                THEN [MergeAll |-> TRUE, MergeMode |-> decision]
                ELSE eng
        asked == IF remembered THEN <<>>
                 ELSE IF eng.MergeAll THEN <<"PromptMergeDecision">>
                 ELSE <<"PromptMergeDecision", "PromptMergeAll">>
    IN IF ~Exists(files, path) THEN {MergeOutcome(newContent, TRUE, "", eng, <<>>)}
       ELSE IF force THEN {MergeOutcome(newContent, TRUE, "", eng, <<>>)}
       ELSE IF ~CanMerge(fileType) THEN {MergeOutcome(<<>>, FALSE, "", eng, <<>>)}
       ELSE CASE decision = "overwrite" -> {MergeOutcome(newContent, TRUE, "", eng2, asked)}
              [] decision = "skip" -> {MergeOutcome(<<>>, FALSE, "", eng2, asked)}
              [] decision = "showdiff" -> {MergeOutcome(<<>>, FALSE, "", eng2, asked)}
              [] decision = "merge" ->
                   {MergeOutcome(r.content, r.shouldWrite, r.err, eng2,
                                 asked \o r.events) :
                       r \in performMerge(ans, files[path], newContent, fileType)}
              [] OTHER -> {MergeOutcome(<<>>, FALSE, "", eng2, asked)}

\* ----------------------------------------------------------------- writer

\* The writer's world: the files and directories on disk, the ledger
\* (Writer.Operations), the merge engine's remembered decision, and the
\* calls the engine made to the decision provider and to a strategy.
World(fs, ds, ops, eng) ==
    [files |-> fs, dirs |-> ds, ops |-> ops, eng |-> eng, log |-> <<>>]

\* what a call returns: the world it leaves and its error ("" for nil)
Ret(w, err) == [w |-> w, err |-> err]

FileOperation(type, path, content, existing) ==
    [Type |-> type, Path |-> path, Content |-> content, Existing |-> existing]

\* os.MkdirAll(d): d and every parent of d
MkdirAll(ds, d) == ds \cup {SubSeq(d, 1, k) : k \in 1..Len(d)}

\* os.WriteFile(path, content)
WriteBytes(fs, path, content) ==
    [p \in DOMAIN fs \cup {path} |-> IF p = path THEN content ELSE fs[p]]

\* a writer that leaves every existing file alone
RecordAndWriteKeep(cfg, w, path, content, exists) ==
    IF exists THEN w
    ELSE LET op == FileOperation("CREATE", path, content, exists)
             w1 == [w EXCEPT !.ops = Append(@, op)]
         IN IF cfg.DryRun THEN w1
            ELSE [w1 EXCEPT !.files = WriteBytes(@, path, content),
                            !.dirs = MkdirAll(@, path.dir)]

\* the second half of WriteFile, from "Determine operation type" on.  An
\* existing file in the default mode is logged and skipped: the function
\* returns before the operation is recorded.
RecordAndWrite(cfg, w, path, content, exists) ==
    IF exists /\ ~(cfg.Force \/ cfg.MergeMode) THEN w
    ELSE LET op == FileOperation(IF exists THEN "UPDATE" ELSE "CREATE",
                                 path, content, exists)
             w1 == [w EXCEPT !.ops = Append(@, op)]
         IN IF cfg.DryRun THEN w1
            ELSE [w1 EXCEPT !.files = WriteBytes(@, path, content),
                            !.dirs = MkdirAll(@, path.dir)]

\* Writer.WriteFile: the set of results the call may have
WriteFile(cfg, ans, w, path, content) ==
    LET exists == Exists(w.files, path)
        merged(m) ==
            LET w1 == [w EXCEPT !.eng = m.eng, !.log = @ \o m.events]
            IN IF m.err # "" THEN Ret(w1, "merge failed")
               ELSE IF ~m.shouldWrite
               THEN Ret([w1 EXCEPT !.ops =
                            Append(@, FileOperation("SKIP", path, content, TRUE))], "")
               ELSE Ret(RecordAndWrite(cfg, w1, path, m.content, exists), "")
    IN IF cfg.MergeMode /\ exists /\ ~cfg.Force
       THEN {merged(m) : m \in MergeFile(cfg.Force, ans, w.eng, w.files, path, content)}
       ELSE {Ret(RecordAndWrite(cfg, w, path, content, exists), "")}

\* no initial-content generator was passed (nil)
NoInitial == [given |-> FALSE, content |-> <<>>]
Initial(content) == [given |-> TRUE, content |-> content]

\* a writer that takes a missing file for an error whatever generator it got
CurrentContentNoInitial(w, path, init) ==
    IF Exists(w.files, path) THEN [ok |-> TRUE, content |-> w.files[path]]
    ELSE [ok |-> FALSE, content |-> <<>>]

\* The content UpdateFileIdempotent works on.  A path that does not exist
\* and comes with an initial-content generator is handled as the
\* specification of the writer says: the initial content is synthesized
\* and the call proceeds as if the file existed with it.
CurrentContent(w, path, init) ==
    IF Exists(w.files, path) THEN [ok |-> TRUE, content |-> w.files[path]]
    ELSE IF init.given THEN [ok |-> TRUE, content |-> init.content]
    ELSE [ok |-> FALSE, content |-> <<>>]

\* Writer.PrintSummary: the three counts it prints
PrintSummary(ops) ==
    LET count(t) == Cardinality({i \in 1..Len(ops) : ops[i].Type = t})
    IN [creates |-> count("CREATE"), updates |-> count("UPDATE"),
        skips |-> count("SKIP")]

\* ------------------------------------------------------------- generators

\* the number of entities of the schema and the number of generation runs
NumEntities == 2
MaxRuns == 2

Entities == SubSeq(EntityNames, 1, NumEntities)

\* templates.Pluralize for the names of the model
Pluralize(e) == e \o "s"

\* where the artifacts go (detector.LayerPaths)
EntityPath(e) == Path(<<"Domain", "Entities">>, <<e>>, "cs")
DtoDir(e) == <<"Contracts", "Catalog", e>>
CreateDtoPath(e) == Path(DtoDir(e), <<"Create", e, "Dto">>, "cs")
UpdateDtoPath(e) == Path(DtoDir(e), <<"Update", e, "Dto">>, "cs")
EntityDtoPath(e) == Path(DtoDir(e), <<e, "Dto">>, "cs")
AppServiceInterfacePath(e) ==
    Path(<<"Contracts", "Services">>, <<"I", e, "App", "Service">>, "cs")
PermissionsPath == Path(<<"Contracts", "Permissions">>, <<"Catalog", "Permissions">>, "cs")
DbContextPath == Path(<<"EntityFrameworkCore">>, <<"Catalog", "Db", "Context">>, "cs")
ConfigurationPath(e) ==
    Path(<<"EntityFrameworkCore", "Configurations", "CatalogModule">>,
         <<e, "Configuration">>, "cs")
LocalizationPath == Path(<<"DomainShared", "Localization">>, <<"en">>, "json")

\* the directories paths.EnsureDirectories creates
LayerDirs == {<<"Domain", "Entities">>, <<"Contracts", "Services">>, <<"Contracts", "Permissions">>,
              <<"EntityFrameworkCore">>, <<"EntityFrameworkCore", "Configurations">>,
              <<"DomainShared", "Localization">>}

\* the rendered templates
RenderEntity(e) ==
    <<Using("System", "top"), Blank, Text("namespace"), OpenBrace,
      Class(e, "pub"), OpenBrace, Prop("Name", "string", "gs"), Blank,
      MHead("SetName", "void", "string a"), OpenBrace, Text("Name = a"),
      CloseBrace, CloseBrace, CloseBrace>>

RenderDto(kind, e) ==
    <<Using("System", "top"), Blank, Text("namespace"), OpenBrace,
      Class(kind \o e \o "Dto", "pub"), OpenBrace,
      Prop("Name", "string", "gs"), CloseBrace, CloseBrace>>

\* efcore_config.tmpl: `public class EConfiguration` with its Configure
RenderConfiguration(e) ==
    <<Using("EntityFrameworkCore", "top"), Blank, Text("namespace"), OpenBrace,
      Class(e \o "Configuration", "pub"), OpenBrace,
      MHead("Configure", "void", "EntityTypeBuilder builder"), OpenBrace,
      Text("builder.ToTable"), CloseBrace, CloseBrace, CloseBrace>>

\* `public interface I<E>AppService`: an interface, not a class
RenderAppServiceInterface(e) ==
    <<Using("System", "top"), Blank, Text("namespace"), OpenBrace,
      Text("interface I" \o e \o "AppService"), OpenBrace,
      Text("GetAsync"), CloseBrace, CloseBrace>>

\* permissions.tmpl: the fragment of an entity in the permission registry
RenderPermissions(e) ==
    <<Class(e \o "Management", "static"), OpenBrace, Text("Default"), CloseBrace>>

\* dbSetProperty: the fragment of an entity in the data-context
DbSetProperty(e) == <<Prop(Pluralize(e), DbSetOf(e), "virt")>>

\* `builder.ApplyConfiguration(new EConfiguration());`
ApplyLine(e) == L("apply", e, "", "")

\* buildEntityLocalizationContent
LocalizationContent(e) == [k \in {e} |-> JS(e)]

\* regexp `(\s+)(anchor)` with ReplaceAllString(frag + "$1$2"): the fragment
\* goes behind the last line that is not blank before every anchor line
RECURSIVE InsertBeforeEach(_, _, _)
InsertBeforeEach(c, at, frag) ==
    IF at = {} THEN c
    ELSE LET i == Max(at)
             solid == {j \in 1..(i - 1) : c[j] # Blank}
             k == IF solid = {} THEN 0 ELSE Max(solid)
         IN InsertBeforeEach(InsertAt(c, k, frag \o <<Blank>>), at \ {i}, frag)

\* regexp `(anchor\s*{)` with ReplaceAllString("$1" + frag): the fragment
\* goes behind the opening brace of every anchor
RECURSIVE InsertAfterEach(_, _, _)
InsertAfterEach(c, at, frag) ==
    IF at = {} THEN c
    ELSE LET i == Max(at)
         IN InsertAfterEach(InsertAt(c, i, frag \o <<Blank>>), at \ {i}, frag)

Mutated(content, err) == [content |-> content, err |-> err]

\* how often the lines of frag occur in c
FragmentCount(c, frag) ==
    Cardinality({i \in 1..(Len(c) - Len(frag) + 1) :
                    SubSeq(c, i, i + Len(frag) - 1) = frag})

\* createInitialContent of updatePermissionsFile
InitialPermissions(e) ==
    <<Using("Permissions", "top"), Blank, Text("namespace"), OpenBrace,
      Class("CatalogPermissions", "static"), OpenBrace, Text("GroupName"), Blank>>
    \o RenderPermissions(e)
    \o <<Anchor("GetAll"), OpenBrace, Text("return"), CloseBrace,
         CloseBrace, CloseBrace>>

\* createInitialContent of UpdateDbContext
InitialDbContext(e) ==
    <<Using("EntityFrameworkCore", "top"), Text("namespace"), OpenBrace,
      Class("CatalogDbContext", "pub"), OpenBrace, Text("comment")>>
    \o DbSetProperty(e)
    \o <<Anchor("ctor"), OpenBrace, CloseBrace, Blank,
         Anchor("OnModelCreating"), OpenBrace, Text("base"), ApplyLine(e),
         CloseBrace, CloseBrace, CloseBrace>>

\* sequential composition: the next call is made when the previous one
\* returned nil
Then(rs, F(_)) == UNION {IF r.err # "" THEN {r} ELSE F(r.w) : r \in rs}

\* EntityGenerator.Generate
EntityGenerate(cfg, ans, w, e) == WriteFile(cfg, ans, w, EntityPath(e), RenderEntity(e))

\* DTOGenerator.Generate: the directory is made whatever the mode is
DTOGenerate(cfg, ans, w, e) ==
    LET w1 == [w EXCEPT !.dirs = MkdirAll(@, DtoDir(e))]
        create(x) == WriteFile(cfg, ans, x, CreateDtoPath(e), RenderDto("Create", e))
        update(x) == WriteFile(cfg, ans, x, UpdateDtoPath(e), RenderDto("Update", e))
        read(x) == WriteFile(cfg, ans, x, EntityDtoPath(e), RenderDto("", e))
    IN Then(Then(create(w1), update), read)

\* DTOGenerator.GenerateAppServiceInterface
GenerateAppServiceInterface(cfg, ans, w, e) ==
    WriteFile(cfg, ans, w, AppServiceInterfacePath(e), RenderAppServiceInterface(e))

\* EFCoreGenerator.GenerateConfiguration
GenerateConfiguration(cfg, ans, w, e) ==
    WriteFile(cfg, ans, w, ConfigurationPath(e), RenderConfiguration(e))

\* strings.Contains(content, "public static class EManagement")
PermissionsSentinel(c, e) ==
    \E i \in 1..Len(c) : /\ c[i].k = "class" /\ c[i].t = "static"
                         /\ NameHolds(c[i].n, e \o "Management")

\* strings.Contains(content, "DbSet<E>")
DbSetSentinel(c, e) ==
    \E i \in 1..Len(c) : c[i].k = "prop" /\ NameHolds(c[i].t, DbSetOf(e))

\* strings.Contains(content, "ApplyConfiguration(new EConfiguration())")
ApplySentinel(c, e) == ApplyLine(e) \in Range(c)

\* the searchPattern and the insertFunc closure a generator hands to
\* UpdateFileIdempotent: which patch it is, and for which entity
Patch(kind, e) == [kind |-> kind, e |-> e]

\* strings.Contains(contentStr, searchPattern)
ContainsPattern(c, patch) ==
    CASE patch.kind = "Permissions" -> PermissionsSentinel(c, patch.e)
      [] patch.kind = "DbContext" -> DbSetSentinel(c, patch.e)
      [] patch.kind = "ModelCreating" -> ApplySentinel(c, patch.e)

\* the insertFunc of updatePermissionsFile
insertPermissions(c, e) ==
    LET at == {i \in 1..Len(c) : c[i] = Anchor("GetAll")}
    IN IF at = {} THEN Mutated(<<>>, "GetAll() method not found")
       ELSE Mutated(InsertBeforeEach(c, at, RenderPermissions(e)), "")

\* the insertFunc of UpdateDbContext
insertDbSetProperty(c, e) ==
    LET at == {i \in 1..Len(c) : c[i] = Anchor("ctor")}
    IN IF at = {} THEN Mutated(<<>>, "DbContext constructor not found")
       ELSE Mutated(InsertBeforeEach(c, at, DbSetProperty(e)), "")

\* the insertFunc of UpdateModelCreating
insertConfiguration(c, e) ==
    LET at == {i \in 2..Len(c) : /\ c[i].k = "open"
                                 /\ c[i - 1] = Anchor("OnModelCreating")}
    IN IF at = {} THEN Mutated(<<>>, "OnModelCreating method not found")
       ELSE Mutated(InsertAfterEach(c, at, <<ApplyLine(e)>>), "")

insertFunc(c, patch) ==
    CASE patch.kind = "Permissions" -> insertPermissions(c, patch.e)
      [] patch.kind = "DbContext" -> insertDbSetProperty(c, patch.e)
      [] patch.kind = "ModelCreating" -> insertConfiguration(c, patch.e)

\* Writer.UpdateFileIdempotent
UpdateFileIdempotent(cfg, ans, w, path, patch, init) ==
    LET cur == CurrentContent(w, path, init)
        new == insertFunc(cur.content, patch)
    IN IF ~cur.ok THEN {Ret(w, "file does not exist")}
       ELSE IF ContainsPattern(cur.content, patch) THEN {Ret(w, "")}
       ELSE IF new.err # "" THEN {Ret(w, new.err)}
       ELSE WriteFile(cfg, ans, w, path, new.content)

\* PermissionsGenerator.updatePermissionsFile
updatePermissionsFile(cfg, ans, w, e) ==
    UpdateFileIdempotent(cfg, ans, w, PermissionsPath, Patch("Permissions", e),
                         Initial(InitialPermissions(e)))

\* EFCoreGenerator.UpdateDbContext
UpdateDbContext(cfg, ans, w, e) ==
    UpdateFileIdempotent(cfg, ans, w, DbContextPath, Patch("DbContext", e),
                         Initial(InitialDbContext(e)))

\* EFCoreGenerator.UpdateModelCreating: no initial-content generator
UpdateModelCreating(cfg, ans, w, e) ==
    UpdateFileIdempotent(cfg, ans, w, DbContextPath, Patch("ModelCreating", e),
                         NoInitial)

\* LocalizationGenerator.MergeLocalizationFile: the generator merges the
\* entity's keys into the file itself and hands the result to the writer
MergeLocalizationFile(cfg, ans, w, e) ==
    LET present == Exists(w.files, LocalizationPath)
        old == IF present THEN w.files[LocalizationPath]
               ELSE <<JDoc("indent", [k \in {} |-> JS("")])>>
    IN IF ~JSONParses(old)
       THEN {Ret(w, "failed to parse existing localization file")}
       ELSE UNION {WriteFile(cfg, ans,
                             [w EXCEPT !.log = Append(@, "LocalizationMerge")],
                             LocalizationPath, r.merged) :
                      r \in JSONMerge(<<JDoc("indent", old[1].j)>>,
                                      <<JDoc("indent", LocalizationContent(e))>>,
                                      "append")}

\* ------------------------------------------------------ the generation run

VARIABLES
    cfg,         \* the writer's flags: DryRun, Force, MergeMode
    ans,         \* the answers of the decision provider, fixed for the run
    files,       \* the files on disk: path -> content
    dirs,        \* the directories on disk
    Operations,  \* Writer.Operations, the ledger of the current run
    engine,      \* the merge engine: MergeAll, MergeMode
    pc,          \* the position of runGenerate: run, entity, step
    status,      \* "start", "running", "done", "failed"
    last,        \* the last generator call and what it returned
    first,       \* the files and the ledger at the end of the first run
    initial,     \* the files and directories before the first run
    summary,     \* what PrintSummary printed
    input,       \* strategy check: the existing text, the new text, the file type
    result,      \* strategy check: what the strategy returned
    again        \* strategy check: what the strategy returned the second time

vars == <<cfg, ans, files, dirs, Operations, engine, pc, status, last, first,
          initial, summary, input, result, again>>

\* enableMerge := mergeMode && !noMerge && !force
EnableMerge(mergeMode, noMerge, force) == mergeMode /\ ~noMerge /\ ~force

\* the writers NewWriterWithMerge(dryRun, force, verbose, enableMerge) makes
\* for the flags --dry-run, --force, --merge and --no-merge
Modes == {[DryRun |-> d, Force |-> f, MergeMode |-> EnableMerge(m, n, f)] :
             d \in BOOLEAN, f \in BOOLEAN, m \in BOOLEAN, n \in BOOLEAN}

Decisions == {"merge", "overwrite", "skip", "showdiff"}
Resolutions == {"KeepExisting", "UseNew", "KeepBoth", "Skip"}

Answers == [decision : Decisions, applyAll : BOOLEAN,
            resolution : Resolutions, resolveAll : BOOLEAN]

\* the provider is never asked when the merge mode is off
DefaultAnswers == [decision |-> "merge", applyAll |-> FALSE,
                   resolution |-> "KeepExisting", resolveAll |-> FALSE]

\* the solution before the first run
ProjectDirs == {<<"Domain">>, <<"Contracts">>, <<"EntityFrameworkCore">>,
                <<"DomainShared">>}
AllLayerDirs == UNION {MkdirAll({}, d) : d \in LayerDirs}

UserPermissions ==
    <<Text("namespace"), OpenBrace, Class("CatalogPermissions", "static"),
      OpenBrace, Text("GroupName"), Blank, Anchor("GetAll"), OpenBrace,
      Text("return"), CloseBrace, CloseBrace, CloseBrace>>

CtorBlock == <<Blank, Anchor("ctor"), OpenBrace, CloseBrace>>

UserDbContext(sets, ctors) ==
    <<Using("EntityFrameworkCore", "top"), Text("namespace"), OpenBrace,
      Class("CatalogDbContext", "pub"), OpenBrace>>
    \o sets \o ctors
    \o <<Blank, Anchor("OnModelCreating"), OpenBrace, Text("base"),
         CloseBrace, CloseBrace, CloseBrace>>

UserEntity(e) ==
    <<Text("header"), Using("System", "top"), Blank, Text("namespace"),
      OpenBrace, Class(e, "pub"), OpenBrace, Prop("Name", "int", "gs"),
      Prop("Price", "int", "gs"), CloseBrace, CloseBrace>>

UserLocalization(e) == <<JDoc("compact", [k \in {e} |-> JS("Produkt")])>>

FilesOf(S) == [p \in {x[1] : x \in S} |-> (CHOOSE x \in S : x[1] = p)[2]]

SharedFiles ==
    {<<PermissionsPath, UserPermissions>>,
     <<DbContextPath,
       UserDbContext(<<Prop("Customers", DbSetOf("Customer"), "gs")>>, CtorBlock)>>}

Projects ==
    {[files |-> FilesOf({}), dirs |-> ProjectDirs],
     [files |-> FilesOf(SharedFiles), dirs |-> AllLayerDirs],
     [files |-> FilesOf(SharedFiles \cup
                   {<<EntityPath("Product"), UserEntity("Product")>>,
                    <<LocalizationPath, UserLocalization("Product")>>}),
      dirs |-> AllLayerDirs],
     [files |-> FilesOf({<<PermissionsPath, InitialPermissions("Product")>>,
                         <<DbContextPath, UserDbContext(<<>>, CtorBlock \o CtorBlock)>>}),
      dirs |-> AllLayerDirs]}

NoCall == [call |-> "none", entity |-> "", path |-> PermissionsPath, err |-> "",
           existed |-> FALSE, found |-> FALSE, hasInit |-> FALSE,
           unmergeable |-> FALSE, appended |-> 0, changed |-> FALSE,
           fragment |-> <<>>, events |-> <<>>, engine |-> NewEngine,
           content |-> <<>>]

NoInput == [phase |-> "idle", existing |-> <<>>, newContent |-> <<>>,
            fileType |-> "Unknown", strategy |-> "append"]
NoResult == MergeResult("", <<>>, <<>>)

Init ==
    /\ cfg \in Modes
    /\ ans \in (IF cfg.MergeMode THEN Answers ELSE {DefaultAnswers})
    /\ \E p \in Projects :
          /\ files = p.files
          /\ dirs = p.dirs
          /\ initial = p
    /\ Operations = <<>>
    /\ engine = NewEngine
    /\ pc = [run |-> 1, entity |-> 1, step |-> 1]
    /\ status = "start"
    /\ last = NoCall
    /\ first = [files |-> FilesOf({}), ops |-> <<>>]
    /\ summary = PrintSummary(<<>>)
    /\ input = NoInput
    /\ result = NoResult
    /\ again = NoResult

\* the generator calls of the entity loop of runGenerate, in its order
Steps == <<"Entity", "DTO", "AppServiceInterface", "Permissions",
           "Localization", "Configuration", "DbContext", "ModelCreating">>

Advance(p) ==
    IF p.step < Len(Steps) THEN [p EXCEPT !.step = @ + 1]
    ELSE [p EXCEPT !.entity = @ + 1, !.step = 1]

TheWorld == World(files, dirs, Operations, engine)
TheEntity == Entities[pc.entity]

AtStep(name) ==
    /\ status = "running"
    /\ pc.entity <= NumEntities
    /\ Steps[pc.step] = name

\* the decision MergeFile acts on for the next file
EffectiveDecision ==
    IF engine.MergeAll /\ engine.MergeMode # "" THEN engine.MergeMode
    ELSE ans.decision

\* the write of content to path reaches the structural strategy and the
\* strategy cannot parse a class out of one of the two texts
Unmergeable(path, content) ==
    /\ cfg.MergeMode /\ ~cfg.Force
    /\ Exists(files, path)
    /\ CanMerge(ClassifyFile(path))
    /\ EffectiveDecision = "merge"
    /\ GetMergeStrategy(ClassifyFile(path)) = "AST"
    /\ (~ParseClass(files[path]).ok \/ ~ParseClass(content).ok)

Call(name, path, found, hasInit, unmergeable, r) ==
    [call |-> name, entity |-> TheEntity, path |-> path, err |-> r.err,
     existed |-> Exists(files, path), found |-> found, hasInit |-> hasInit,
     unmergeable |-> unmergeable,
     appended |-> Len(r.w.ops) - Len(Operations),
     changed |-> r.w.files # files,
     fragment |-> CASE Steps[pc.step] = "Permissions" -> RenderPermissions(TheEntity)
                    [] Steps[pc.step] = "DbContext" -> DbSetProperty(TheEntity)
                    [] Steps[pc.step] = "ModelCreating" -> <<ApplyLine(TheEntity)>>
                    [] OTHER -> <<>>,
     events |-> r.w.log,
     engine |-> engine,
     content |-> CASE Steps[pc.step] = "Entity" -> RenderEntity(TheEntity)
                   [] Steps[pc.step] = "AppServiceInterface" ->
                        RenderAppServiceInterface(TheEntity)
                   [] Steps[pc.step] = "Configuration" -> RenderConfiguration(TheEntity)
                   [] OTHER -> <<>>]

\* a loop that reports the error of a generator call and goes on
ReturnsWarned(r, call) ==
    /\ files' = r.w.files
    /\ dirs' = r.w.dirs
    /\ Operations' = r.w.ops
    /\ engine' = r.w.eng
    /\ last' = call
    /\ status' = status
    /\ pc' = Advance(pc)
    /\ UNCHANGED <<cfg, ans, first, initial, summary, input, result, again>>

\* one generator call of the loop: a call that returns an error ends the run
Returns(r, call) ==
    /\ files' = r.w.files
    /\ dirs' = r.w.dirs
    /\ Operations' = r.w.ops
    /\ engine' = r.w.eng
    /\ last' = call
    /\ IF r.err # "" THEN status' = "failed" /\ pc' = pc
       ELSE status' = status /\ pc' = Advance(pc)
    /\ UNCHANGED <<cfg, ans, first, initial, summary, input, result, again>>

\* the start of runGenerate: a new writer, and the layer directories unless
\* the run is a dry run
StartRun ==
    /\ status = "start" \/ (status = "done" /\ pc.run < MaxRuns)
    /\ status' = "running"
    /\ pc' = [run |-> IF status = "start" THEN 1 ELSE pc.run + 1,
              entity |-> 1, step |-> 1]
    /\ first' = IF status = "done" /\ pc.run = 1
                THEN [files |-> files, ops |-> Operations] ELSE first
    /\ Operations' = <<>>
    /\ engine' = NewEngine
    /\ dirs' = IF cfg.DryRun THEN dirs ELSE dirs \cup AllLayerDirs
    /\ last' = NoCall
    /\ UNCHANGED <<cfg, ans, files, initial, summary, input, result, again>>

GenerateEntity ==
    /\ AtStep("Entity")
    /\ \E r \in EntityGenerate(cfg, ans, TheWorld, TheEntity) :
          Returns(r, Call("WriteFile", EntityPath(TheEntity), FALSE, FALSE,
                          Unmergeable(EntityPath(TheEntity), RenderEntity(TheEntity)), r))

GenerateDTO ==
    /\ AtStep("DTO")
    /\ \E r \in DTOGenerate(cfg, ans, TheWorld, TheEntity) :
          Returns(r, Call("DTOGenerate", EntityDtoPath(TheEntity), FALSE, FALSE, FALSE, r))

GenerateInterface ==
    /\ AtStep("AppServiceInterface")
    /\ \E r \in GenerateAppServiceInterface(cfg, ans, TheWorld, TheEntity) :
          Returns(r, Call("WriteFile", AppServiceInterfacePath(TheEntity), FALSE, FALSE,
                          Unmergeable(AppServiceInterfacePath(TheEntity),
                                      RenderAppServiceInterface(TheEntity)), r))

GeneratePermissions ==
    /\ AtStep("Permissions")
    /\ \E r \in updatePermissionsFile(cfg, ans, TheWorld, TheEntity) :
          Returns(r, Call("UpdateFileIdempotent", PermissionsPath,
                          /\ Exists(files, PermissionsPath)
                          /\ PermissionsSentinel(files[PermissionsPath], TheEntity),
                          TRUE, FALSE, r))

GenerateLocalization ==
    /\ AtStep("Localization")
    /\ \E r \in MergeLocalizationFile(cfg, ans, TheWorld, TheEntity) :
          Returns(r, Call("MergeLocalizationFile", LocalizationPath, FALSE, FALSE, FALSE, r))

GenerateEFCoreConfiguration ==
    /\ AtStep("Configuration")
    /\ \E r \in GenerateConfiguration(cfg, ans, TheWorld, TheEntity) :
          Returns(r, Call("WriteFile", ConfigurationPath(TheEntity), FALSE, FALSE,
                          Unmergeable(ConfigurationPath(TheEntity),
                                      RenderConfiguration(TheEntity)), r))

GenerateDbContext ==
    /\ AtStep("DbContext")
    /\ \E r \in UpdateDbContext(cfg, ans, TheWorld, TheEntity) :
          Returns(r, Call("UpdateFileIdempotent", DbContextPath,
                          /\ Exists(files, DbContextPath)
                          /\ DbSetSentinel(files[DbContextPath], TheEntity),
                          TRUE, FALSE, r))

GenerateModelCreating ==
    /\ AtStep("ModelCreating")
    /\ \E r \in UpdateModelCreating(cfg, ans, TheWorld, TheEntity) :
          Returns(r, Call("UpdateFileIdempotent", DbContextPath,
                          /\ Exists(files, DbContextPath)
                          /\ ApplyLine(TheEntity) \in Range(files[DbContextPath]),
                          FALSE, FALSE, r))

\* the end of runGenerate
Summary ==
    /\ status = "running"
    /\ pc.entity = NumEntities + 1
    /\ summary' = PrintSummary(Operations)
    /\ status' = "done"
    /\ UNCHANGED <<cfg, ans, files, dirs, Operations, engine, pc, last, first,
                   initial, input, result, again>>

Next ==
    \/ StartRun
    \/ GenerateEntity
    \/ GenerateDTO
    \/ GenerateInterface
    \/ GeneratePermissions
    \/ GenerateLocalization
    \/ GenerateEFCoreConfiguration
    \/ GenerateDbContext
    \/ GenerateModelCreating
    \/ Summary

Spec == Init /\ [][Next]_vars

\* ------------------------------------------- the run with a test project

\* where the test project file goes (getTestProjectPath)
TestProjectPath == Path(<<"test", "Catalog", "Tests">>, <<"Catalog", "Tests">>, "csproj")
RenderTestProject == <<Text("Project")>>

\* IntegrationTestGenerator.GenerateTestProject: the template is optional
\* (nil when it cannot be loaded), its execution may fail, and the rendered
\* project file goes through the writer
GenerateTestProject(flags, answers, w) ==
    {Ret(w, ""), Ret(w, "failed to execute test project template")}
    \cup WriteFile(flags, answers, w, TestProjectPath, RenderTestProject)

\* runGenerate before the entity loop, when the schema enables integration
\* tests: an error of the test project is printed and the run goes on
TestProject ==
    /\ status = "running"
    /\ pc.entity = 1 /\ pc.step = 1
    /\ last = NoCall
    /\ \E r \in GenerateTestProject(cfg, ans, TheWorld) :
          /\ files' = r.w.files
          /\ dirs' = r.w.dirs
          /\ Operations' = r.w.ops
          /\ engine' = r.w.eng
          /\ last' = [NoCall EXCEPT !.call = "GenerateTestProject",
                                    !.path = TestProjectPath,
                                    !.err = r.err,
                                    !.existed = Exists(files, TestProjectPath),
                                    !.appended = Len(r.w.ops) - Len(Operations),
                                    !.changed = r.w.files # files,
                                    !.events = r.w.log,
                                    !.engine = engine,
                                    !.content = RenderTestProject]
    /\ UNCHANGED <<cfg, ans, pc, status, first, initial, summary, input, result,
                   again>>

NextTests == Next \/ TestProject

SpecTests == Init /\ [][NextTests]_vars

\* ------------------------------------------------------ the strategy check

\* A second specification: the three strategies applied to pairs of texts.

Method(n, t, p, body) == <<MHead(n, t, p), OpenBrace>> \o body \o <<CloseBrace>>

ClassFile(head, props, methods) ==
    head \o <<Text("namespace"), OpenBrace, Class("Product", "pub"), OpenBrace>>
    \o props \o methods \o <<CloseBrace, CloseBrace>>

Heads == {<<>>, <<Using("System", "top")>>,
          <<Text("header"), Using("System", "top")>>,
          <<Using("System", "top"), Blank, Using("Linq", "top")>>}

PropSets == {<<>>, <<Prop("Name", "string", "gs")>>, <<Prop("Name", "int", "gs")>>,
             <<Prop("Name", "string", "gs"), Prop("Price", "int", "gps")>>}

MethodSets ==
    {<<>>,
     Method("Get", "int", "int a", <<Text("return 1")>>),
     Method("Get", "int", "int b", <<Text("return 2")>>),
     Method("Get", "int", "int a", <<Using("scope", "stmt"), Text("return 1")>>),
     Method("Put", "void", "string a", <<Text("store")>>),
     Method("Recompute", "void", "", <<Text("hand-written")>>),
     Method("Recompute", "void", "", <<Text("generated")>>)}

ASTTexts ==
    {ClassFile(h, ps, ms) : h \in Heads, ps \in PropSets, ms \in MethodSets}
    \cup {RenderAppServiceInterface("Product")}

PermissionTexts ==
    {<<Text("namespace"), OpenBrace>> \o cs \o <<CloseBrace>> :
        cs \in {<<>>, RenderPermissions("Product"), RenderPermissions("Order"),
                RenderPermissions("Product") \o <<Blank>> \o RenderPermissions("Order")}}
    \cup {UserPermissions, InitialPermissions("Product")}

ProviderTexts ==
    {<<Class("Provider", "pub"), OpenBrace,
       MHead("Define", "void", "IPermissionDefinitionContext context"), OpenBrace>>
     \o ds \o <<CloseBrace, CloseBrace>> :
        ds \in {<<>>, <<Define("Product")>>, <<Define("Order")>>,
                <<Define("Product"), Define("Order")>>}}

\* `public interface ICatalogDbContext` with its `DbSet<T> N { get; }` lines
InterfaceDbContext(sets) ==
    <<Using("EntityFrameworkCore", "top"), Text("namespace"), OpenBrace,
      Text("interface ICatalogDbContext"), OpenBrace>>
    \o sets \o <<CloseBrace, CloseBrace>>

DbContextTexts ==
    {UserDbContext(sets, CtorBlock) :
        sets \in {<<>>, <<Prop("Products", DbSetOf("Product"), "gs")>>,
                  <<Prop("Products", DbSetOf("Product"), "gs"),
                    Prop("Orders", DbSetOf("Order"), "gs")>>,
                  DbSetProperty("Order")}}
    \cup {InterfaceDbContext(<<>>), InterfaceDbContext(<<Prop("Customers", DbSetOf("Customer"), "g")>>)}

JSONTrees ==
    {[k \in {} |-> JS("")],
     [k \in {"Product"} |-> JS("a")],
     [k \in {"Product"} |-> JS("b")],
     [k \in {"Product", "Order"} |-> JS("a")],
     [k \in {"Product", "Order"} |-> JS("b")],
     [k \in {"Product"} |-> JM([j \in {"k"} |-> JS("a")])],
     [k \in {"Product"} |-> JM([j \in {"k", "Order"} |-> JS("b")])],
     [k \in {"Product"} |-> JA(<<JS("a")>>)],
     [k \in {"Product"} |-> JA(<<JS("b")>>)]}

JSONTexts ==
    {<<JDoc(layout, t)>> : layout \in {"indent", "compact"}, t \in JSONTrees}
    \cup {<<JDoc("bad", [k \in {} |-> JS("")])>>}

MergeInput(existing, newContent, fileType) ==
    [phase |-> "input", existing |-> existing, newContent |-> newContent,
     fileType |-> fileType, strategy |-> "append"]

\* the strategy tags of NewJSONMergerWithStrategy
JSONStrategies == {"append", "overwrite", "skip"}

MergeInputs ==
    {MergeInput(e, n, t) : e \in ASTTexts, n \in ASTTexts, t \in {"Entity", "Service"}}
    \cup {MergeInput(e, n, "Permissions") : e \in PermissionTexts, n \in PermissionTexts}
    \cup {MergeInput(e, n, "PermissionProvider") : e \in ProviderTexts, n \in ProviderTexts}
    \cup {MergeInput(e, n, t) : e \in DbContextTexts, n \in DbContextTexts,
                                t \in {"DbContext", "IDbContext"}}
    \cup {[MergeInput(e, n, "LocalizationJSON") EXCEPT !.strategy = s] :
             e \in JSONTexts, n \in JSONTexts, s \in JSONStrategies}

InitMerge ==
    /\ input \in MergeInputs
    /\ result = NoResult
    /\ again = NoResult
    /\ cfg = [DryRun |-> FALSE, Force |-> FALSE, MergeMode |-> TRUE]
    /\ ans = DefaultAnswers
    /\ files = FilesOf({})
    /\ dirs = {}
    /\ initial = [files |-> FilesOf({}), dirs |-> {}]
    /\ Operations = <<>>
    /\ engine = NewEngine
    /\ pc = [run |-> 1, entity |-> 1, step |-> 1]
    /\ status = "merge"
    /\ last = NoCall
    /\ first = [files |-> FilesOf({}), ops |-> <<>>]
    /\ summary = PrintSummary(<<>>)

Strategy == GetMergeStrategy(input.fileType)

Merged(r) ==
    /\ input.phase = "input"
    /\ result' = r
    /\ input' = [input EXCEPT !.phase = "merged"]
    /\ UNCHANGED <<cfg, ans, files, dirs, Operations, engine, pc, status, last,
                   first, initial, summary, again>>

MergePattern ==
    /\ Strategy = "Pattern"
    /\ Merged(PatternMerge(input.existing, input.newContent, input.fileType))

MergeAST ==
    /\ Strategy = "AST"
    /\ Merged(ASTMerge(input.existing, input.newContent, input.fileType))

MergeJSON ==
    /\ Strategy = "JSON"
    /\ \E r \in JSONMerge(input.existing, input.newContent, input.strategy) : Merged(r)

\* what the strategy of the file type may return for the input
StrategyResults ==
    CASE Strategy = "Pattern" ->
            {PatternMerge(input.existing, input.newContent, input.fileType)}
      [] Strategy = "AST" ->
            {ASTMerge(input.existing, input.newContent, input.fileType)}
      [] Strategy = "JSON" ->
            JSONMerge(input.existing, input.newContent, input.strategy)

\* the same strategy called a second time on the same two texts
MergeAgain ==
    /\ input.phase = "merged"
    /\ \E r \in StrategyResults : again' = r
    /\ input' = [input EXCEPT !.phase = "again"]
    /\ UNCHANGED <<cfg, ans, files, dirs, Operations, engine, pc, status, last,
                   first, initial, summary, result>>

\* the answers the decision provider may give to PromptConflictBatch
ResolveAnswers ==
    {[DefaultAnswers EXCEPT !.resolution = r, !.resolveAll = b] :
        r \in Resolutions, b \in BOOLEAN}

\* Engine.performMerge on the two texts: the strategy, the prompt for the
\* conflicts and their resolution; the engine's JSON merger appends
PerformMerge ==
    /\ input.phase = "input"
    /\ input.strategy = "append"
    /\ \E a \in ResolveAnswers :
          \E r \in performMerge(a, input.existing, input.newContent, input.fileType) :
             /\ ans' = a
             /\ result' = MergeResult(r.err, r.content, <<>>)
    /\ input' = [input EXCEPT !.phase = "performed"]
    /\ UNCHANGED <<cfg, files, dirs, Operations, engine, pc, status, last,
                   first, initial, summary, again>>

NextMerge == MergePattern \/ MergeAST \/ MergeJSON \/ MergeAgain \/ PerformMerge

SpecMerge == InitMerge /\ [][NextMerge]_vars

\* ------------------------------------------------------------ prompt check

\* the longest conflict list of one file
MaxConflicts == 3

ConflictKinds == {"DuplicateProperty", "DuplicateMethod"}

\* the conflict lists of one file: conflict i is named by its position
ConflictLists ==
    UNION {{[i \in 1..n |-> Conflict(kinds[i], <<"conflict", i>>, <<>>, <<>>)] :
               kinds \in [1..n -> ConflictKinds]} : n \in 1..MaxConflicts}

PromptInputs ==
    {[phase |-> "input", conflicts |-> cs, res |-> r, all |-> a] :
        cs \in ConflictLists,
        r \in [1..MaxConflicts -> Resolutions],
        a \in [1..MaxConflicts -> BOOLEAN]}

InitPrompt ==
    /\ input \in PromptInputs
    /\ result = NoResult
    /\ again = NoResult
    /\ cfg = [DryRun |-> FALSE, Force |-> FALSE, MergeMode |-> TRUE]
    /\ ans = DefaultAnswers
    /\ files = FilesOf({})
    /\ dirs = {}
    /\ initial = [files |-> FilesOf({}), dirs |-> {}]
    /\ Operations = <<>>
    /\ engine = NewEngine
    /\ pc = [run |-> 1, entity |-> 1, step |-> 1]
    /\ status = "prompt"
    /\ last = NoCall
    /\ first = [files |-> FilesOf({}), ops |-> <<>>]
    /\ summary = PrintSummary(<<>>)

\* the resolution ResolveConflicts applies to conflict i
AppliedResolution(resolutions, i) ==
    IF i \in DOMAIN resolutions THEN resolutions[i] ELSE "KeepExisting"

\* the conflicts of one file are put to the decision provider
PromptConflicts ==
    /\ input.phase = "input"
    /\ LET r == PromptConflictBatchWith(input.conflicts, input.res, input.all)
       IN result' = [presented |-> r.presented,
                     resolutions |-> r.resolutions,
                     applied |-> [i \in 1..Len(input.conflicts) |->
                                     AppliedResolution(r.resolutions, i)]]
    /\ input' = [input EXCEPT !.phase = "prompted"]
    /\ UNCHANGED <<cfg, ans, files, dirs, Operations, engine, pc, status, last,
                   first, initial, summary, again>>

NextPrompt == PromptConflicts

SpecPrompt == InitPrompt /\ [][NextPrompt]_vars

\* ------------------------------------------------------------ schema check

\* the closed set of target framework tags (schema.TargetFramework)
ValidTargets == {"aspnetcore9", "aspnetcore10", "abp8-microservice", "abp8-monolith",
                 "abp9-microservice", "abp9-monolith", "abp10-microservice",
                 "abp10-monolith", "auto"}

\* the closed set of entity kinds
ValidEntityTypes == {"Entity", "AggregateRoot", "FullAuditedAggregateRoot",
                     "AuditedAggregateRoot", "ValueObject"}

\* schema.ManyToManyRelation and schema.Entity
ManyToManyRelation(target, join) == [TargetEntity |-> target, JoinEntity |-> join]
SchemaEntity(name, table, type, props, m2m) ==
    [Name |-> name, TableName |-> table, EntityType |-> type,
     Properties |-> props, ManyToMany |-> m2m]

\* entities[0] > entities[1] on the names of the schema
NameRank(n) == CASE n = "Order" -> 1 [] n = "Product" -> 2 [] OTHER -> 0
NameGreater(a, b) == NameRank(a) > NameRank(b)

\* the join name of validateRelations and processManyToMany
JoinName(a, b) == IF NameGreater(a, b) THEN b \o a ELSE a \o b

\* Schema.validateSolution: the target framework part.  The receiver is a
\* pointer, so the default is stored in the schema.
validateSolution(sch) ==
    LET t == IF sch.TargetFramework = "" THEN "auto" ELSE sch.TargetFramework
        s1 == [sch EXCEPT !.TargetFramework = t]
    IN IF t \notin ValidTargets
       THEN [err |-> "solution.targetFramework must be one of", sch |-> s1]
       ELSE [err |-> "", sch |-> s1]

\* Schema.validateEntity on the entity it is handed: the error and the
\* entity with its defaults
validateEntity(entity, existingNames) ==
    LET e1 == [entity EXCEPT
                 !.TableName = IF @ = "" THEN Pluralize(entity.Name) ELSE @,
                 !.EntityType = IF @ = "" THEN "FullAuditedAggregateRoot" ELSE @]
        err == IF entity.Name = "" THEN "entity name is required"
               ELSE IF entity.Name \in existingNames THEN "duplicate entity name"
               ELSE IF e1.EntityType \notin ValidEntityTypes THEN "invalid entityType"
               ELSE IF entity.Properties = 0 /\ e1.EntityType # "ValueObject"
               THEN "entity must have at least one property"
               ELSE ""
    IN [err |-> err, entity |-> e1]

\* Schema.validateRelations on the entity it is handed: `for i, rel := range
\* entity.Relations.ManyToMany` assigns the join name to the loop variable
\* rel, a copy of the slice element, so the relations come back as they were
validateRelations(entity) ==
    LET bad == {i \in 1..Len(entity.ManyToMany) : entity.ManyToMany[i].TargetEntity = ""}
    IN [err |-> IF bad = {} THEN "" ELSE "targetEntity is required",
        entity |-> entity]

\* Schema.Validate: `for i, entity := range s.Entities` hands validateEntity
\* and validateRelations the address of the loop variable, a copy of the
\* slice element, so s.Entities is stored as it was loaded
Validate(sch) ==
    LET sol == validateSolution(sch)
        n == Len(sch.Entities)
        names(i) == {sch.Entities[j].Name : j \in 1..(i - 1)}
        badEntity == {i \in 1..n :
                         validateEntity(sch.Entities[i], names(i)).err # ""}
        badRelation == {i \in 1..n : validateRelations(sch.Entities[i]).err # ""}
    IN IF sol.err # "" THEN sol
       ELSE IF n = 0
       THEN [err |-> "schema must contain at least one entity", sch |-> sol.sch]
       ELSE IF badEntity # {}
       THEN [err |-> validateEntity(sch.Entities[Min(badEntity)],
                                    names(Min(badEntity))).err,
             sch |-> sol.sch]
       ELSE IF badRelation # {}
       THEN [err |-> "targetEntity is required", sch |-> sol.sch]
       ELSE [err |-> "", sch |-> sol.sch]

\* RelationshipHandler.processManyToMany on the relation it is handed
processManyToMany(entity, rel) ==
    [rel EXCEPT !.JoinEntity = IF @ = "" THEN JoinName(entity.Name, rel.TargetEntity)
                               ELSE @]

\* RelationshipHandler.ProcessRelationships: `for _, rel := range
\* entity.Relations.ManyToMany` hands processManyToMany the address of the
\* loop variable, so the relations of the entity stay as they were
ProcessRelationships(entity) == entity

\* the effective target of runGenerate: the --target flag unless it is
\* auto or empty, then the target detected from the solution
EffectiveTarget(flag, detected) ==
    IF flag = "auto" \/ flag = "" THEN detected ELSE flag

\* the longest entity list of a schema
MaxSchemaEntities == 2

SchemaRelations ==
    {<<>>} \cup {<<ManyToManyRelation("Order", j)>> : j \in {"", "Link"}}

SchemaEntities ==
    {SchemaEntity(n, t, k, 1, r) :
        n \in {"Product", "Order"}, t \in {"", "Items"},
        k \in {"", "Entity", "Bogus"}, r \in SchemaRelations}

Schemas ==
    {[TargetFramework |-> t, Entities |-> es] :
        t \in {"", "abp9-monolith", "foo"},
        es \in UNION {[1..n -> SchemaEntities] : n \in 1..MaxSchemaEntities}}

\* a loaded schema, the --target flag and the target detected in the solution
SchemaInputs ==
    {[phase |-> "loaded", sch |-> sch, flag |-> f, detected |-> "abp8-monolith"] :
        sch \in Schemas, f \in {"auto", "foo"}}

\* no template loader yet, nothing rendered
NoRun == [err |-> "", sch |-> [TargetFramework |-> "", Entities |-> <<>>],
          effectiveTarget |-> "", loader |-> "none", read |-> <<>>]

InitSchema ==
    /\ input \in SchemaInputs
    /\ result = NoRun
    /\ again = NoResult
    /\ cfg = [DryRun |-> FALSE, Force |-> FALSE, MergeMode |-> FALSE]
    /\ ans = DefaultAnswers
    /\ files = FilesOf({})
    /\ dirs = {}
    /\ initial = [files |-> FilesOf({}), dirs |-> {}]
    /\ Operations = <<>>
    /\ engine = NewEngine
    /\ pc = [run |-> 1, entity |-> 1, step |-> 1]
    /\ status = "schema"
    /\ last = NoCall
    /\ first = [files |-> FilesOf({}), ops |-> <<>>]
    /\ summary = PrintSummary(<<>>)

SchemaFrame ==
    UNCHANGED <<cfg, ans, files, dirs, Operations, engine, pc, status, last,
                first, initial, summary, again>>

\* runGenerate: sch.Validate()
ValidateSchema ==
    /\ input.phase = "loaded"
    /\ LET v == Validate(input.sch)
       IN /\ result' = [result EXCEPT !.err = v.err, !.sch = v.sch]
          /\ input' = [input EXCEPT !.phase = IF v.err = "" THEN "validated"
                                              ELSE "failed"]
    /\ SchemaFrame

\* runGenerate: the effective target, the schema's target and the template
\* loader made for it
DetermineTarget ==
    /\ input.phase = "validated"
    /\ LET t == EffectiveTarget(input.flag, input.detected)
       IN result' = [result EXCEPT
                       !.effectiveTarget = t,
                       !.sch.TargetFramework = IF @ \in {"", "auto"} THEN t ELSE @,
                       !.loader = t]
    /\ input' = [input EXCEPT !.phase = "generating"]
    /\ SchemaFrame

\* runGenerate: one turn of `for i, entity := range sch.Entities`: the
\* relations are processed and the renderers read the entity
RenderEntityOfSchema ==
    /\ input.phase = "generating"
    /\ LET i == Len(result.read) + 1
           entity == ProcessRelationships(result.sch.Entities[i])
       IN /\ result' = [result EXCEPT !.read = Append(@, entity)]
          /\ input' = [input EXCEPT !.phase =
                          IF i = Len(result.sch.Entities) THEN "done" ELSE @]
    /\ SchemaFrame

NextSchema == ValidateSchema \/ DetermineTarget \/ RenderEntityOfSchema

SpecSchema == InitSchema /\ [][NextSchema]_vars

\* ----------------------------------------------------------- project check

\* A project name is the sequence of its dot-separated segments.  A segment
\* is a word in one of three spellings: as the source writes it ("canon":
\* Domain), in another letter case ("lower": domain), or followed by more
\* letters ("longer": DomainServices).
Segment(w, form) == [w |-> w, form |-> form]

\* the segment is the word, letter for letter
IsWord(seg, w) == seg.w = w /\ seg.form = "canon"
\* the lower-cased segment is the lower-cased word
IsWordLower(seg, w) == seg.w = w /\ seg.form \in {"canon", "lower"}
\* the lower-cased segment starts with the lower-cased word
StartsWithLower(seg, w) == seg.w = w

\* strings.HasSuffix(projectName, "." + words joined by ".")
HasSuffixWords(name, words) ==
    /\ Len(name) > Len(words)
    /\ \A i \in 1..Len(words) : IsWord(name[Len(name) - Len(words) + i], words[i])

\* strings.Contains(nameLower, "." + lower-cased words joined by ".")
ContainsLowerWords(name, words) ==
    \E at \in 2..(Len(name) - Len(words) + 1) :
        /\ \A i \in 1..(Len(words) - 1) : IsWordLower(name[at + i - 1], words[i])
        /\ StartsWithLower(name[at + Len(words) - 1], words[Len(words)])

\* nameLower == lower-cased words joined by "."
EqualsLowerWords(name, words) ==
    /\ Len(name) = Len(words)
    /\ \A i \in 1..Len(words) : IsWordLower(name[i], words[i])

\* the three tests DetermineProjectType makes for a layer
MatchesLayer(name, words) ==
    \/ HasSuffixWords(name, words)
    \/ ContainsLowerWords(name, words)
    \/ EqualsLowerWords(name, words)

\* strings.HasSuffix(nameLower, ".api") && !strings.Contains(nameLower, "application")
MatchesDotApi(name) ==
    /\ Len(name) > 1
    /\ IsWordLower(name[Len(name)], "Api")
    /\ \A i \in 1..Len(name) : name[i].w # "Application"

\* the general layers tested before the specific ones
DetermineProjectTypeGeneralFirst(name) ==
    IF MatchesLayer(name, <<"Domain">>) THEN "Domain"
    ELSE IF MatchesLayer(name, <<"Application">>) THEN "Application"
    ELSE IF MatchesLayer(name, <<"Domain", "Shared">>) THEN "Domain.Shared"
    ELSE IF MatchesLayer(name, <<"Application", "Contracts">>)
    THEN "Application.Contracts"
    ELSE IF MatchesLayer(name, <<"EntityFrameworkCore">>) THEN "EntityFrameworkCore"
    ELSE "Unknown"

DetermineProjectType(name) ==
    IF MatchesLayer(name, <<"Domain", "Shared">>) THEN "Domain.Shared"
    ELSE IF MatchesLayer(name, <<"Application", "Contracts">>)
    THEN "Application.Contracts"
    ELSE IF \/ MatchesLayer(name, <<"EntityFrameworkCore">>)
            \/ ContainsLowerWords(name, <<"EfCore">>)
            \/ EqualsLowerWords(name, <<"EfCore">>)
    THEN "EntityFrameworkCore"
    ELSE IF MatchesLayer(name, <<"MongoDB">>) THEN "MongoDB"
    ELSE IF MatchesLayer(name, <<"Domain">>) THEN "Domain"
    ELSE IF MatchesLayer(name, <<"Application">>) THEN "Application"
    ELSE IF MatchesLayer(name, <<"HttpApi">>) \/ MatchesDotApi(name) THEN "HttpApi"
    ELSE "Unknown"

\* the most segments of a project name
MaxSegments == 3

Segments ==
    {Segment(w, f) : w \in {"MyApp", "Domain", "Shared", "Application", "Contracts",
                            "EntityFrameworkCore", "EfCore", "MongoDB", "HttpApi",
                            "Api"},
                     f \in {"canon", "lower"}}
    \cup {Segment(w, "longer") : w \in {"Domain", "Shared", "Application"}}

ProjectNames == UNION {[1..n -> Segments] : n \in 1..MaxSegments}

InitProject ==
    /\ input \in {[phase |-> "input", name |-> n] : n \in ProjectNames}
    /\ result = NoResult
    /\ again = NoResult
    /\ cfg = [DryRun |-> FALSE, Force |-> FALSE, MergeMode |-> FALSE]
    /\ ans = DefaultAnswers
    /\ files = FilesOf({})
    /\ dirs = {}
    /\ initial = [files |-> FilesOf({}), dirs |-> {}]
    /\ Operations = <<>>
    /\ engine = NewEngine
    /\ pc = [run |-> 1, entity |-> 1, step |-> 1]
    /\ status = "project"
    /\ last = NoCall
    /\ first = [files |-> FilesOf({}), ops |-> <<>>]
    /\ summary = PrintSummary(<<>>)

\* parseProjectLine: the project gets its layer type from its name
ClassifyProject ==
    /\ input.phase = "input"
    /\ result' = [Type |-> DetermineProjectType(input.name)]
    /\ input' = [input EXCEPT !.phase = "classified"]
    /\ UNCHANGED <<cfg, ans, files, dirs, Operations, engine, pc, status, last,
                   first, initial, summary, again>>

NextProject == ClassifyProject

SpecProject == InitProject /\ [][NextProject]_vars

\* ------------------------------------------------------------ engine check

\* one generated file name for every file kind of the classifier
KindPaths ==
    {PermissionsPath, DbContextPath, LocalizationPath,
     Path(<<"Application", "Permissions">>,
          <<"Catalog", "Permission", "Definition", "Provider">>, "cs"),
     Path(<<"EntityFrameworkCore">>, <<"I", "Catalog", "Db", "Context">>, "cs"),
     Path(<<"Domain", "Entities">>, <<"Product">>, "cs"),
     Path(<<"Contracts", "Catalog", "Product">>, <<"Product", "Dto">>, "cs"),
     Path(<<"Application", "Services">>, <<"Product", "App", "Service">>, "cs")}
    \cup {Path(<<"Domain", "Catalog">>, <<"Product", w>>, "cs") :
             w \in {"Manager", "Controller", "Validator", "Repository", "Constants",
                    "Profile", "Configuration"}}
    \cup {Path(<<"Application", "Handlers">>, <<"Product", "Event", "Handler">>, "cs")}

\* the text a path holds on disk and the text generated for it
ExistingText(p) == IF p.ext = "json" THEN UserLocalization("Product")
                   ELSE UserEntity("Product")
GeneratedText(p) == IF p.ext = "json"
                    THEN <<JDoc("indent", LocalizationContent("Product"))>>
                    ELSE RenderEntity("Product")

\* the engine before the call: no decision kept, or one kept for all files
Engines == {NewEngine} \cup {[MergeAll |-> TRUE, MergeMode |-> d] : d \in Decisions}

InitEngine ==
    /\ input \in {[phase |-> "input", path |-> p] : p \in KindPaths}
    /\ result = NoResult
    /\ again = NoResult
    /\ cfg = [DryRun |-> FALSE, Force |-> FALSE, MergeMode |-> TRUE]
    /\ ans \in Answers
    /\ files = FilesOf({<<input.path, ExistingText(input.path)>>})
    /\ dirs = {}
    /\ initial = [files |-> files, dirs |-> {}]
    /\ Operations = <<>>
    /\ engine \in Engines
    /\ pc = [run |-> 1, entity |-> 1, step |-> 1]
    /\ status = "engine"
    /\ last = NoCall
    /\ first = [files |-> FilesOf({}), ops |-> <<>>]
    /\ summary = PrintSummary(<<>>)

\* Engine.MergeFile on a path that exists
MergeExistingFile ==
    /\ input.phase = "input"
    /\ \E r \in MergeFile(cfg.Force, ans, engine, files, input.path,
                          GeneratedText(input.path)) :
          /\ result' = [r EXCEPT !.eng = engine]
          /\ engine' = r.eng
    /\ input' = [input EXCEPT !.phase = "returned"]
    /\ UNCHANGED <<cfg, ans, files, dirs, Operations, pc, status, last,
                   first, initial, summary, again>>

NextEngine == MergeExistingFile

SpecEngine == InitEngine /\ [][NextEngine]_vars

\* ----------------------------------------------------------- preview check

\* the most writer calls of one sequence
MaxCalls == 3

\* the writer under dry-run and the writer of the real run, in the same mode
DryCfg == [cfg EXCEPT !.DryRun = TRUE]
RealCfg == [cfg EXCEPT !.DryRun = FALSE]

\* the two writers start on the same file system with an empty ledger
InitPreview ==
    /\ cfg \in {m \in Modes : ~m.DryRun}
    /\ ans \in (IF cfg.MergeMode
                THEN {[DefaultAnswers EXCEPT !.decision = d] : d \in Decisions}
                ELSE {DefaultAnswers})
    /\ files \in {FilesOf({}), FilesOf(SharedFiles)}
    /\ dirs = {}
    /\ initial = [files |-> files, dirs |-> dirs]
    /\ input = [phase |-> "calls", calls |-> <<>>]
    /\ result = [dry |-> World(files, dirs, <<>>, NewEngine),
                 real |-> World(files, dirs, <<>>, NewEngine),
                 dryErr |-> <<>>, realErr |-> <<>>]
    /\ again = NoResult
    /\ Operations = <<>>
    /\ engine = NewEngine
    /\ pc = [run |-> 1, entity |-> 1, step |-> 1]
    /\ status = "preview"
    /\ last = NoCall
    /\ first = [files |-> FilesOf({}), ops |-> <<>>]
    /\ summary = PrintSummary(<<>>)

\* the same call has returned rd under dry-run and rr in the real run
BothReturn(call, rd, rr) ==
    /\ result' = [dry |-> rd.w, real |-> rr.w,
                  dryErr |-> Append(result.dryErr, rd.err),
                  realErr |-> Append(result.realErr, rr.err)]
    /\ input' = [input EXCEPT !.calls = Append(@, call)]
    /\ UNCHANGED <<cfg, ans, files, dirs, Operations, engine, pc, status, last,
                   first, initial, summary, again>>

\* Writer.WriteFile(path, content) on both writers
PreviewWriteFile ==
    /\ status = "preview"
    /\ Len(input.calls) < MaxCalls
    /\ \E e \in Range(Entities) :
          \E rd \in WriteFile(DryCfg, ans, result.dry, EntityPath(e), RenderEntity(e)),
             rr \in WriteFile(RealCfg, ans, result.real, EntityPath(e), RenderEntity(e)) :
             BothReturn(<<"WriteFile", e>>, rd, rr)

\* Writer.UpdateFileIdempotent on both writers, as the permissions and the
\* data-context generators call it
PreviewUpdateFileIdempotent ==
    /\ status = "preview"
    /\ Len(input.calls) < MaxCalls
    /\ \E e \in Range(Entities) :
          \/ \E rd \in updatePermissionsFile(DryCfg, ans, result.dry, e),
                rr \in updatePermissionsFile(RealCfg, ans, result.real, e) :
                BothReturn(<<"updatePermissionsFile", e>>, rd, rr)
          \/ \E rd \in UpdateDbContext(DryCfg, ans, result.dry, e),
                rr \in UpdateDbContext(RealCfg, ans, result.real, e) :
                BothReturn(<<"UpdateDbContext", e>>, rd, rr)
          \/ \E rd \in UpdateModelCreating(DryCfg, ans, result.dry, e),
                rr \in UpdateModelCreating(RealCfg, ans, result.real, e) :
                BothReturn(<<"UpdateModelCreating", e>>, rd, rr)

NextPreview == PreviewWriteFile \/ PreviewUpdateFileIdempotent

SpecPreview == InitPreview /\ [][NextPreview]_vars

\* ------------------------------------------------------------- layer check

\* the layer projects a solution may hold (detector.ProjectType)
LayerProjects == {"Domain", "Application", "HttpApi", "MongoDB"}

\* filepath.Join(dir, sub...): an empty element adds nothing
JoinPath(dir, sub) == dir \o sub

\* detector.DetectLayerPaths: the paths of a layer are set only when the
\* solution has its project, and left empty otherwise; a solution without
\* a domain project is an error
DetectLayerPaths(projects) ==
    LET under(t, sub) == IF t \in projects THEN JoinPath(<<t>>, sub) ELSE <<>>
    IN [err |-> IF "Domain" \in projects THEN ""
                ELSE "Domain project not found in solution",
        Domain |-> under("Domain", <<>>),
        DomainEntities |-> under("Domain", <<"Entities">>),
        ApplicationServices |-> under("Application", <<"Services">>),
        ApplicationAutoMapper |-> under("Application", <<"AutoMapper">>),
        HttpApiControllers |-> under("HttpApi", <<"Controllers">>),
        MongoDB |-> under("MongoDB", <<>>),
        MongoDBRepositories |-> under("MongoDB", <<"MongoDB", "Repositories">>)]

ModuleFolder == <<"CatalogModule">>

RenderClass(name) ==
    <<Text("namespace"), OpenBrace, Class(name, "pub"), OpenBrace, CloseBrace,
      CloseBrace>>

\* EntityGenerator.Generate under the detected paths
EntityGenerateIn(flags, answers, w, paths, e) ==
    WriteFile(flags, answers, w,
              Path(paths.DomainEntities, <<e>>, "cs"),
              RenderEntity(e))

\* ServiceGenerator.Generate
ServiceGenerate(flags, answers, w, paths, e) ==
    WriteFile(flags, answers, w,
              Path(JoinPath(paths.ApplicationServices, ModuleFolder),
                   <<e, "App", "Service">>, "cs"),
              RenderClass(e \o "AppService"))

\* ServiceGenerator.GenerateAutoMapperProfile
GenerateAutoMapperProfile(flags, answers, w, paths, e) ==
    WriteFile(flags, answers, w,
              Path(JoinPath(paths.ApplicationAutoMapper, ModuleFolder),
                   <<e, "Profile">>, "cs"),
              RenderClass(e \o "Profile"))

\* ServiceGenerator.GenerateController
GenerateController(flags, answers, w, paths, e) ==
    WriteFile(flags, answers, w,
              Path(JoinPath(paths.HttpApiControllers, ModuleFolder),
                   <<e, "Controller">>, "cs"),
              RenderClass(e \o "Controller"))

\* MongoDBGenerator.Generate: nothing when the solution has no MongoDB project
MongoDBGenerate(flags, answers, w, paths, e) ==
    IF paths.MongoDB = <<>> THEN {Ret(w, "")}
    ELSE WriteFile(flags, answers, w,
                   Path(paths.MongoDBRepositories, <<"Mongo", e, "Repository">>, "cs"),
                   RenderClass("Mongo" \o e \o "Repository"))

LayerSteps == <<"Entity", "Service", "AutoMapperProfile", "Controller", "MongoDB">>

InitLayers ==
    /\ input \in {[phase |-> "detect", projects |-> ps] : ps \in SUBSET LayerProjects}
    /\ result = DetectLayerPaths({})
    /\ again = NoResult
    /\ cfg \in Modes
    /\ ans \in (IF cfg.MergeMode
                THEN {[DefaultAnswers EXCEPT !.decision = d] : d \in Decisions}
                ELSE {DefaultAnswers})
    /\ files = FilesOf({})
    /\ dirs = {<<t>> : t \in input.projects}
    /\ initial = [files |-> files, dirs |-> dirs]
    /\ Operations = <<>>
    /\ engine = NewEngine
    /\ pc = [run |-> 1, entity |-> 1, step |-> 1]
    /\ status = "layers"
    /\ last = NoCall
    /\ first = [files |-> FilesOf({}), ops |-> <<>>]
    /\ summary = PrintSummary(<<>>)

\* runGenerate: the layer paths of the solution, or the end of the run
DetectPaths ==
    /\ status = "layers"
    /\ input.phase = "detect"
    /\ result' = DetectLayerPaths(input.projects)
    /\ input' = [input EXCEPT !.phase = IF result'.err = "" THEN "generate"
                                        ELSE "failed"]
    /\ UNCHANGED <<cfg, ans, files, dirs, Operations, engine, pc, status, last,
                   first, initial, summary, again>>

AtLayerStep(name) ==
    /\ status = "layers"
    /\ input.phase = "generate"
    /\ pc.entity <= NumEntities
    /\ LayerSteps[pc.step] = name

\* a generator call of the loop has returned r
LayerReturns(r) ==
    /\ files' = r.w.files
    /\ dirs' = r.w.dirs
    /\ Operations' = r.w.ops
    /\ engine' = r.w.eng
    /\ IF r.err # ""
       THEN input' = [input EXCEPT !.phase = "failed"] /\ pc' = pc
       ELSE /\ pc' = IF pc.step < Len(LayerSteps) THEN [pc EXCEPT !.step = @ + 1]
                     ELSE [pc EXCEPT !.entity = @ + 1, !.step = 1]
            /\ input' = [input EXCEPT !.phase =
                            IF pc'.entity > NumEntities THEN "done" ELSE @]
    /\ UNCHANGED <<cfg, ans, status, last, first, initial, summary, result, again>>

LayerEntity ==
    /\ AtLayerStep("Entity")
    /\ \E r \in EntityGenerateIn(cfg, ans, TheWorld, result, TheEntity) : LayerReturns(r)

LayerService ==
    /\ AtLayerStep("Service")
    /\ \E r \in ServiceGenerate(cfg, ans, TheWorld, result, TheEntity) : LayerReturns(r)

LayerAutoMapperProfile ==
    /\ AtLayerStep("AutoMapperProfile")
    /\ \E r \in GenerateAutoMapperProfile(cfg, ans, TheWorld, result, TheEntity) :
          LayerReturns(r)

LayerController ==
    /\ AtLayerStep("Controller")
    /\ \E r \in GenerateController(cfg, ans, TheWorld, result, TheEntity) : LayerReturns(r)

LayerMongoDB ==
    /\ AtLayerStep("MongoDB")
    /\ \E r \in MongoDBGenerate(cfg, ans, TheWorld, result, TheEntity) : LayerReturns(r)

NextLayers ==
    \/ DetectPaths
    \/ LayerEntity
    \/ LayerService
    \/ LayerAutoMapperProfile
    \/ LayerController
    \/ LayerMongoDB

SpecLayers == InitLayers /\ [][NextLayers]_vars

\* ------------------------------------------------------------------ claims

\* the files the first run created or updated on disk
EmittedFirst ==
    {first.ops[i].Path : i \in {j \in 1..Len(first.ops) :
                                   first.ops[j].Type \in {"CREATE", "UPDATE"}}}
    \cap DOMAIN first.files

\* C1: when the second run over the unchanged schema has ended (it printed
\* its summary, or a generator call returned an error), every file the first
\* run emitted holds the bytes it held after the first run.
C1_RunIdempotence ==
    (status \in {"done", "failed"} /\ pc.run = 2) =>
        \A p \in EmittedFirst : p \in DOMAIN files /\ files[p] = first.files[p]

\* C2: under dry-run no step of the run creates, modifies or deletes a file
\* or a directory.
C2_DryRunTouchesNothing ==
    cfg.DryRun => (files = initial.files /\ dirs = initial.dirs)

\* C3: in the default mode (no dry-run, no force, no merge), after
\* update_idempotent returned for an entity whose sentinel was missing from
\* an existing shared file, the file holds the entity's fragment.
C3_FragmentLands ==
    (/\ last.call = "UpdateFileIdempotent"
     /\ ~cfg.DryRun /\ ~cfg.Force /\ ~cfg.MergeMode
     /\ last.existed /\ ~last.found /\ last.err = "")
    => FragmentCount(files[last.path], last.fragment) >= 1

\* the fragments update_idempotent puts into the shared files
Fragments ==
    UNION {{RenderPermissions(Entities[i]), DbSetProperty(Entities[i]),
            <<ApplyLine(Entities[i])>>} : i \in 1..NumEntities}

\* C4: a shared file holds each entity's fragment at most once, and a call
\* that found its sentinel in the file left the file bytes unchanged.
C4_FragmentAtMostOnce ==
    /\ \A p \in {PermissionsPath, DbContextPath} \cap DOMAIN files :
          \A f \in Fragments : FragmentCount(files[p], f) <= 1
    /\ (last.call = "UpdateFileIdempotent" /\ last.found) => ~last.changed

\* C5: a strategy given a new text equal to the existing text returns no
\* conflict and a merged text equal to the existing one (for JSON: a text
\* holding the same tree).
C5_StrategyIdempotence ==
    (/\ input.phase = "merged"
     /\ input.newContent = input.existing
     /\ result.err = "")
    => /\ result.conflicts = <<>>
       /\ IF Strategy = "JSON"
          THEN JSONParses(result.merged)
               /\ result.merged[1].j = input.existing[1].j
          ELSE result.merged = input.existing

\* C6: every WriteFile that returned nil appended exactly one FileOperation
\* to the ledger.
C6_OneOperationPerWrite ==
    (last.call = "WriteFile" /\ last.err = "") => last.appended = 1

C8_UnmergeableIsSkip ==
    last.unmergeable => (last.err = "" /\ ~last.changed /\ status # "failed")

\* the body text of a parsed method without its blank lines
BodyText(m) ==
    LET solid(l) == l # Blank
    IN SelectSeq(Tail(m.RawContent), solid)

\* C9: for a method that both texts declare with the same signature key and
\* with bodies that differ by more than white space, the structural strategy
\* returns exactly one duplicate-method conflict.
C9_DuplicateMethodConflict ==
    (input.phase = "merged" /\ Strategy = "AST" /\ result.err = "")
    => LET e == ParseClass(input.existing)
           n == ParseClass(input.newContent)
       IN \A i \in 1..Len(n.Methods) :
             LET k == FindMethod(e, n.Methods[i].Signature)
             IN (k # 0 /\ BodyText(e.Methods[k]) # BodyText(n.Methods[i]))
                => Cardinality({c \in 1..Len(result.conflicts) :
                        /\ result.conflicts[c].Type = "DuplicateMethod"
                        /\ result.conflicts[c].Key = n.Methods[i].Name}) = 1

\* C10: when the structural strategy returns a merged text without
\* conflicts, the merged text parses to a class that holds every property
\* of the new class whose name the existing class lacks and every method of
\* the new class whose signature key the existing class lacks.
C10_DeclarationUnion ==
    (/\ input.phase = "merged" /\ Strategy = "AST"
     /\ result.err = "" /\ result.conflicts = <<>>)
    => LET e == ParseClass(input.existing)
           n == ParseClass(input.newContent)
           m == ParseClass(result.merged)
       IN /\ \A i \in 1..Len(n.Properties) :
                ~HasProperty(e, n.Properties[i].Name)
                => HasProperty(m, n.Properties[i].Name)
          /\ \A i \in 1..Len(n.Methods) :
                ~HasMethod(e, n.Methods[i].Signature)
                => HasMethod(m, n.Methods[i].Signature)

\* how often the engine made the call named e during the last generator call
EventCount(e) == Cardinality({i \in 1..Len(last.events) : last.events[i] = e})

\* C12: every path a generator hands to the writer for an entity artifact
\* is classified: ClassifyFile does not return Unknown for it.
C12_ClassificationTotal ==
    last.call \in {"WriteFile", "UpdateFileIdempotent"}
    => ClassifyFile(last.path) # "Unknown"

\* C17: when the decision provider answered show-diff for an existing
\* mergeable file, the engine asked for a decision on that file again.
C17_ShowDiffAsksAgain ==
    (/\ last.call = "WriteFile"
     /\ ans.decision = "showdiff"
     /\ EventCount("PromptMergeDecision") >= 1)
    => EventCount("PromptMergeDecision") >= 2

\* C19: once a decision d is kept for all files, a later generator call of
\* the run does not ask the decision provider for a decision, and a write
\* to an existing mergeable file is handled with d: overwrite puts the new
\* content on disk, skip and show-diff leave the file alone and record a
\* skip, merge calls the strategy.
C19_ApplyAllIsKept ==
    (/\ last.call # "none"
     /\ last.engine.MergeAll /\ last.engine.MergeMode # "")
    => /\ EventCount("PromptMergeDecision") = 0
       /\ EventCount("PromptMergeAll") = 0
       /\ (/\ last.call = "WriteFile" /\ last.existed
            /\ CanMerge(ClassifyFile(last.path)))
          => CASE last.engine.MergeMode = "overwrite" ->
                    /\ last.err = ""
                    /\ cfg.DryRun \/ files[last.path] = last.content
               [] last.engine.MergeMode = "merge" -> EventCount("Merge") = 1
               [] OTHER ->
                    /\ last.err = "" /\ ~last.changed /\ last.appended = 1
                    /\ Operations[Len(Operations)].Type = "SKIP"

C19_Witness ==
    /\ last.call = "WriteFile" /\ last.existed
    /\ CanMerge(ClassifyFile(last.path))
    /\ last.engine.MergeAll /\ last.engine.MergeMode = "overwrite"
    /\ files[last.path] = last.content
    /\ pc.run = 2

C13_ConflictStability ==
    input.phase = "again" => again.conflicts = result.conflicts

\* the tree of a parsed JSON text
TreeOf(c) == c[1].j

\* the top-level keys at which both sides hold a map
SharedMapKeys(e, n) ==
    {key \in DOMAIN e \cap DOMAIN n : e[key].ty = "m" /\ n[key].ty = "m"}

\* C14: for each strategy tag, when a key is present on both sides and both
\* values are maps, the merged value at that key is a map holding every key
\* of the existing sub-map and every key of the new sub-map.
C14_MapsRecurse ==
    (/\ input.phase = "merged"
     /\ Strategy = "JSON"
     /\ result.err = "")
    => \A key \in SharedMapKeys(TreeOf(input.existing), TreeOf(input.newContent)) :
          LET m == TreeOf(result.merged)[key]
          IN /\ m.ty = "m"
             /\ DOMAIN TreeOf(input.existing)[key].m \subseteq DOMAIN m.m
             /\ DOMAIN TreeOf(input.newContent)[key].m \subseteq DOMAIN m.m

\* the key paths at which both sides hold a value, the two values are not
\* both maps and not both sequences, and they differ
RECURSIVE DivergentPaths(_, _)
DivergentPaths(e, n) ==
    UNION {LET a == e[key]
               b == n[key]
           IN IF a.ty = "m" /\ b.ty = "m"
              THEN {<<key>> \o p : p \in DivergentPaths(a.m, b.m)}
              ELSE IF a.ty = "a" /\ b.ty = "a" THEN {}
              ELSE IF a # b THEN {<<key>>}
              ELSE {}
           : key \in DOMAIN e \cap DOMAIN n}

\* the key paths the returned conflicts name
ConflictPaths(conflicts) == {<<conflicts[i].Key>> : i \in 1..Len(conflicts)}

\* C15: under append the structured-data strategy returns exactly one
\* value-divergence conflict for each divergent key path at any depth and
\* no other conflict; under overwrite and skip it returns none.
C15_ExactDivergences ==
    (/\ input.phase = "merged"
     /\ Strategy = "JSON"
     /\ result.err = "")
    => IF input.strategy = "append"
       THEN LET paths == DivergentPaths(TreeOf(input.existing),
                                        TreeOf(input.newContent))
            IN /\ ConflictPaths(result.conflicts) = paths
               /\ Len(result.conflicts) = Cardinality(paths)
               /\ \A i \in 1..Len(result.conflicts) :
                     result.conflicts[i].Type = "DifferentValue"
       ELSE result.conflicts = <<>>

\* the identifiers of the fragments of a text: the names of its
\* `public static class` blocks, of its permission definitions, of its
\* DbSet properties
FragmentNames(c, fileType) ==
    CASE fileType = "Permissions" ->
            {c[i].n : i \in {j \in 1..Len(c) : c[j].k = "class" /\ c[j].t = "static"}}
      [] fileType = "PermissionProvider" ->
            {c[i].n : i \in {j \in 1..Len(c) : c[j].k = "define"}}
      [] OTHER ->
            {c[i].n : i \in {j \in 1..Len(c) : c[j].k = "prop" /\ HoldsDbSet(c[j])}}

\* C11: pattern-merge additivity. When no fragment identifier of the new
\* text occurs in the existing text, the merged text retains every existing
\* identifier, contains every new identifier, and there are no conflicts.
C11_PatternAdditivity ==
    (/\ input.phase = "merged"
     /\ Strategy = "Pattern"
     /\ FragmentNames(input.newContent, input.fileType)
           \cap FragmentNames(input.existing, input.fileType) = {})
    => /\ result.err = ""
       /\ result.conflicts = <<>>
       /\ FragmentNames(input.existing, input.fileType)
             \subseteq FragmentNames(result.merged, input.fileType)
       /\ FragmentNames(input.newContent, input.fileType)
             \subseteq FragmentNames(result.merged, input.fileType)

\* C16: with the structural strategy, when the existing text and the new
\* text declare a method with the same signature and different bodies and
\* the resolver answers keep-both-rename-new, the final text holds the
\* existing method unchanged and a method with the suffixed name (Recompute2
\* for Recompute) that carries the body of the new text.
C16_KeepBothRenamesNew ==
    (/\ input.phase = "performed"
     /\ Strategy = "AST"
     /\ ans.resolution = "KeepBoth")
    => LET e == ParseClass(input.existing)
           n == ParseClass(input.newContent)
           m == ParseClass(result.merged)
       IN \A i \in 1..Len(n.Methods) :
             LET k == FindMethod(e, n.Methods[i].Signature)
             IN (k # 0 /\ BodyText(e.Methods[k]) # BodyText(n.Methods[i]))
                => /\ result.err = ""
                   /\ IndexOf(result.merged, e.Methods[k].RawContent) # 0
                   /\ \E j \in 1..Len(m.Methods) :
                         /\ m.Methods[j].Name = Renamed(n.Methods[i].Name)
                         /\ BodyText(m.Methods[j]) = BodyText(n.Methods[i])

\* the conflict after which the caller elected to apply its resolution to
\* all remaining conflicts of the same kind (0: never elected)
Elected ==
    LET yes == {i \in 1..(Len(input.conflicts) - 1) : input.all[i]}
    IN IF yes = {} THEN 0 ELSE Min(yes)

C21_JoinNameGenerated ==
    (status = "schema" /\ input.phase \in {"generating", "done"})
    => \A i \in 1..Len(result.read) :
          \A j \in 1..Len(result.read[i].ManyToMany) :
             input.sch.Entities[i].ManyToMany[j].JoinEntity = ""
             => result.read[i].ManyToMany[j].JoinEntity
                   = JoinName(result.read[i].Name,
                              result.read[i].ManyToMany[j].TargetEntity)

\* C22: a run never gets past validation with an effective target outside
\* the closed set: no template loader is made for such a tag and nothing is
\* rendered with it.
C22_TargetInClosedSet ==
    (status = "schema" /\ result.loader # "none")
    => result.loader \in ValidTargets

\* C30: after Validate returns success, every entity stored in the schema
\* has a non-empty table name and an entity kind of the closed set.
C30_DefaultsStored ==
    (status = "schema" /\ input.phase \in {"validated", "generating", "done"})
    => \A i \in 1..Len(result.sch.Entities) :
          /\ result.sch.Entities[i].TableName # ""
          /\ result.sch.Entities[i].EntityType \in ValidEntityTypes

\* the name matches a layer pattern without regard to letter case: it ends
\* with, contains or is the dotted words
MatchesPattern(name, words) ==
    \/ ContainsLowerWords(name, words)
    \/ EqualsLowerWords(name, words)

\* C25: the more specific patterns are tested first: a project name matching
\* Domain.Shared is never classified Domain, a name matching
\* Application.Contracts is never classified Application, and a name
\* matching EntityFrameworkCore is never classified Application.
C25_SpecificFirst ==
    (status = "project" /\ input.phase = "classified")
    => /\ MatchesPattern(input.name, <<"Domain", "Shared">>)
             => result.Type # "Domain"
       /\ MatchesPattern(input.name, <<"Application", "Contracts">>)
             => result.Type # "Application"
       /\ MatchesPattern(input.name, <<"EntityFrameworkCore">>)
             => result.Type # "Application"

\* a name that matches both the Domain.Shared and the Domain pattern has
\* been classified
C25_Witness ==
    /\ status = "project" /\ input.phase = "classified"
    /\ MatchesPattern(input.name, <<"Domain", "Shared">>)
    /\ MatchesPattern(input.name, <<"Domain">>)
    /\ result.Type = "Domain.Shared"

\* C28: with the structured-data strategy, every key that occurs only in
\* the new content is present in the final bytes, also when conflicts were
\* raised for other keys and resolved as keep-existing or skip.
C28_NewKeysWritten ==
    (/\ status = "merge"
     /\ input.phase = "performed"
     /\ Strategy = "JSON"
     /\ result.err = ""
     /\ ans.resolution \in {"KeepExisting", "Skip"})
    => /\ JSONParses(result.merged)
       /\ \A key \in DOMAIN TreeOf(input.newContent) \ DOMAIN TreeOf(input.existing) :
             key \in DOMAIN TreeOf(result.merged)

\* the lines of a text that are not namespace directives (`using N;`)
NonDirectiveLines(c) ==
    LET keep(l) == ~(l.k = "using" /\ l.t \in {"top", "ind"})
    IN SelectSeq(c, keep)

\* a is b with lines left out: the lines of a appear in b in their order
RECURSIVE IsSubsequence(_, _)
IsSubsequence(a, b) ==
    IF a = <<>> THEN TRUE
    ELSE IF b = <<>> THEN FALSE
    ELSE IF Head(a) = Head(b) THEN IsSubsequence(Tail(a), Tail(b))
    ELSE IsSubsequence(a, Tail(b))

\* C29: the structural strategy only inserts: when it returns merged text
\* without conflicts, every line of the existing text that is not a
\* namespace directive appears in the merged text, in the original order.
C29_OnlyInserts ==
    (/\ status = "merge"
     /\ input.phase = "merged"
     /\ Strategy = "AST"
     /\ result.err = ""
     /\ result.conflicts = <<>>)
    => IsSubsequence(NonDirectiveLines(input.existing), result.merged)

\* C26: in merge mode without force an existing file comes back as
\* do-not-write without the decision step if and only if the strategy of its
\* file kind is none; a file kind with a pattern, structural or
\* structured-data strategy reaches the decision step, where the decision
\* provider is asked unless a decision is kept for all files.
C26_NoneIffNoDecision ==
    (status = "engine" /\ input.phase = "returned")
    => LET strategy == GetMergeStrategy(ClassifyFile(input.path))
       IN IF strategy = "None"
          THEN ~result.shouldWrite /\ result.events = <<>>
          ELSE ~Remembered(result.eng)
               => \E i \in 1..Len(result.events) :
                     result.events[i] = "PromptMergeDecision"

\* the operation kinds and paths of a ledger, in order
LedgerView(ops) == [i \in 1..Len(ops) |-> <<ops[i].Type, ops[i].Path>>]

\* C27: dry-run is a faithful preview: from the same file system and with
\* the same sequence of write and update-idempotent calls, the ledger under
\* dry-run (kinds and paths, in order) and the call results equal those of
\* the real run.
C27_DryRunPreview ==
    status = "preview"
    => /\ LedgerView(result.dry.ops) = LedgerView(result.real.ops)
       /\ result.dryErr = result.realErr

UnderProject(p) == p.dir # <<>> /\ p.dir[1] \in input.projects

\* C23: a solution with a domain project that lacks another layer project is
\* generated without a fatal error, and no file is written (or recorded as
\* written) to a path composed from an unpopulated layer directory.
C23_MissingLayersTolerated ==
    (status = "layers" /\ "Domain" \in input.projects)
    => /\ input.phase # "failed"
       /\ \A p \in DOMAIN files : UnderProject(p)
       /\ \A i \in 1..Len(Operations) : UnderProject(Operations[i].Path)

====
